---------------------------- MODULE Spec2Model ----------------------------
(***************************************************************************)
(* A model of the 1C bank-statement analyser (src/src): name               *)
(* normalization (normalization.py), the helpers of utils.py, the two-pass *)
(* organization detection and the per-document classification of           *)
(* processing.py.                                                          *)
(*                                                                         *)
(* Strings are sequences of characters.  A character is a one-character    *)
(* TLA+ string for ASCII, and "#" followed by a Latin transliteration for  *)
(* a Cyrillic letter: "#O" is the capital Cyrillic O, "#o" the small one   *)
(* ("#ZH", "#CH", "#SH", "#SHH", "#YU", "#YA", "#YO", "#J", "#Y", "#EH",   *)
(* "#HS" hard sign, "#SS" soft sign, "#H" kha, "#C" tse).  Python's None   *)
(* is the value None below, the empty string is << >>.                     *)
(***************************************************************************)
EXTENDS Integers, Sequences, FiniteSets, TLC

None == <<"<None>">>

CyrUpperSeq == <<"#A", "#B", "#V", "#G", "#D", "#E", "#YO", "#ZH", "#Z", "#I", "#J",
                 "#K", "#L", "#M", "#N", "#O", "#P", "#R", "#S", "#T", "#U", "#F",
                 "#H", "#C", "#CH", "#SH", "#SHH", "#HS", "#Y", "#SS", "#EH", "#YU", "#YA">>
CyrLowerSeq == <<"#a", "#b", "#v", "#g", "#d", "#e", "#yo", "#zh", "#z", "#i", "#j",
                 "#k", "#l", "#m", "#n", "#o", "#p", "#r", "#s", "#t", "#u", "#f",
                 "#h", "#c", "#ch", "#sh", "#shh", "#hs", "#y", "#ss", "#eh", "#yu", "#ya">>
LatUpperSeq == <<"A", "B", "C", "D", "E", "F", "G", "H", "I", "J", "K", "L", "M",
                 "N", "O", "P", "Q", "R", "S", "T", "U", "V", "W", "X", "Y", "Z">>
LatLowerSeq == <<"a", "b", "c", "d", "e", "f", "g", "h", "i", "j", "k", "l", "m",
                 "n", "o", "p", "q", "r", "s", "t", "u", "v", "w", "x", "y", "z">>
DigitSeq == <<"0", "1", "2", "3", "4", "5", "6", "7", "8", "9">>

Range(f) == {f[i] : i \in DOMAIN f}

CyrUpper == Range(CyrUpperSeq)
CyrLower == Range(CyrLowerSeq)
LatUpper == Range(LatUpperSeq)
LatLower == Range(LatLowerSeq)
Digits == Range(DigitSeq)
\* The only whitespace character of the modelled alphabet.
Whitespace == {" "}

\* str.upper() and str.lower() on one character.
UpperMap == [c \in CyrLower \cup LatLower |->
               IF c \in CyrLower
               THEN CyrUpperSeq[CHOOSE i \in DOMAIN CyrLowerSeq : CyrLowerSeq[i] = c]
               ELSE LatUpperSeq[CHOOSE i \in DOMAIN LatLowerSeq : LatLowerSeq[i] = c]]
LowerMap == [c \in CyrUpper \cup LatUpper |->
               IF c \in CyrUpper
               THEN CyrLowerSeq[CHOOSE i \in DOMAIN CyrUpperSeq : CyrUpperSeq[i] = c]
               ELSE LatLowerSeq[CHOOSE i \in DOMAIN LatUpperSeq : LatUpperSeq[i] = c]]
UpperCh(c) == IF c \in DOMAIN UpperMap THEN UpperMap[c] ELSE c
LowerCh(c) == IF c \in DOMAIN LowerMap THEN LowerMap[c] ELSE c

\* str.upper(), str.lower()
Upper(s) == [i \in 1..Len(s) |-> UpperCh(s[i])]
Lower(s) == [i \in 1..Len(s) |-> LowerCh(s[i])]

\* Character classes of Python's re on str: \w, \d, \s.
Letters == CyrUpper \cup CyrLower \cup LatUpper \cup LatLower
WordChars == Letters \cup Digits \cup {"_"}
IsLetter(c) == c \in Letters
IsDigit(c) == c \in Digits
IsWordCh(c) == c \in WordChars
IsSpace(c) == c \in Whitespace

\* The value of a decimal digit character.
DigitVal(c) == (CHOOSE i \in DOMAIN DigitSeq : DigitSeq[i] = c) - 1

\* Python truthiness of an Optional[str]: neither None nor "".
Truthy(s) == s # None /\ s # << >>

\* s[i-1:j-1] of Python, as the characters i..j-1 (1-based, j exclusive).
Slice(s, i, j) == IF j <= i THEN << >> ELSE SubSeq(s, i, j - 1)

\* The first position >= i of s that holds no whitespace (Len(s)+1 if none): \s*
RECURSIVE SkipSpaces(_, _)
SkipSpaces(s, i) ==
    IF i <= Len(s) /\ IsSpace(s[i]) THEN SkipSpaces(s, i + 1) ELSE i

\* The last position <= j of s that holds no whitespace (0 if none).
RECURSIVE SkipSpacesBack(_, _)
SkipSpacesBack(s, j) ==
    IF j >= 1 /\ IsSpace(s[j]) THEN SkipSpacesBack(s, j - 1) ELSE j

\* str.strip()
Strip(s) ==
    LET i == SkipSpaces(s, 1)
        j == SkipSpacesBack(s, Len(s))
    IN  Slice(s, i, j + 1)

\* SPACES_PATTERN.sub(' ', s): every whitespace run becomes one space.
RECURSIVE CollapseFrom(_, _)
CollapseFrom(s, i) ==
    IF i > Len(s) THEN << >>
    ELSE IF IsSpace(s[i]) THEN <<" ">> \o CollapseFrom(s, SkipSpaces(s, i))
    ELSE <<s[i]>> \o CollapseFrom(s, i + 1)
CollapseSpaces(s) == CollapseFrom(s, 1)

\* \b of Python's re at the gap before position i (1..Len(s)+1).
WordBoundary(s, i) ==
    LET before == i > 1 /\ IsWordCh(s[i - 1])
        after == i <= Len(s) /\ IsWordCh(s[i])
    IN  before # after

\* Whether the literal lit stands at position i of s, ignoring case ((?i)).
MatchLit(s, i, lit) ==
    /\ i >= 1
    /\ i + Len(lit) - 1 <= Len(s)
    /\ \A k \in 1..Len(lit) : UpperCh(s[i + k - 1]) = UpperCh(lit[k])

\* `needle in s` of Python: needle is a substring of s.
Contains(s, needle) ==
    \E i \in 1..(Len(s) - Len(needle) + 1) :
        \A k \in 1..Len(needle) : s[i + k - 1] = needle[k]

\* The characters of s that are not in the set drop (re.sub('[...]', '', s)).
RECURSIVE RemoveChars(_, _)
RemoveChars(s, drop) ==
    IF s = << >> THEN << >>
    ELSE (IF Head(s) \in drop THEN << >> ELSE <<Head(s)>>) \o RemoveChars(Tail(s), drop)

-----------------------------------------------------------------------------
(* config.py *)

\* DEFAULT_ORG_NAME_PREFIX = "Организация счета"
DEFAULT_ORG_NAME_PREFIX ==
    <<"#O", "#r", "#g", "#a", "#n", "#i", "#z", "#a", "#c", "#i", "#ya", " ",
      "#s", "#ch", "#e", "#t", "#a">>

\* DEBUG_MODE = False
DEBUG_MODE == FALSE

-----------------------------------------------------------------------------
(* utils.py: safe_float *)

\* The end (exclusive) of the run of decimal digits of s that starts at i.
RECURSIVE DigitsEnd(_, _)
DigitsEnd(s, i) ==
    IF i <= Len(s) /\ IsDigit(s[i]) THEN DigitsEnd(s, i + 1) ELSE i

\* The number a sequence of decimal digits writes (0 for the empty one).
RECURSIVE DigitsValue(_)
DigitsValue(ds) ==
    IF ds = << >> THEN 0
    ELSE 10 * DigitsValue(SubSeq(ds, 1, Len(ds) - 1)) + DigitVal(ds[Len(ds)])

RECURSIVE Pow10(_)
Pow10(n) == IF n <= 0 THEN 1 ELSE 10 * Pow10(n - 1)

\* A float is modelled exactly, as mant * 10^exp with a sign, or as one of the
\* special values: kind is "num", "inf" or "nan".  Binary rounding is not modelled.
RECURSIVE Canonical(_, _, _)
Canonical(neg, mant, exp) ==
    IF mant = 0 THEN [kind |-> "num", neg |-> neg, mant |-> 0, exp |-> 0]
    ELSE IF mant % 10 = 0 THEN Canonical(neg, mant \div 10, exp + 1)
    ELSE [kind |-> "num", neg |-> neg, mant |-> mant, exp |-> exp]

FloatZero == [kind |-> "num", neg |-> FALSE, mant |-> 0, exp |-> 0]
\* The outcome of a float() that raises ValueError.
FloatError == [kind |-> "error", neg |-> FALSE, mant |-> 0, exp |-> 0]

\* float(s) for a string without whitespace: [sign] (number [exponent] | inf |
\* infinity | nan), number = digits ["." [digits]] | "." digits.  The digit
\* separator "_" of Python's grammar is read as a syntax error.
PyFloat(s) ==
    LET signed == s # << >> /\ s[1] \in {"+", "-"}
        neg == signed /\ s[1] = "-"
        b == IF signed THEN Tail(s) ELSE s
        low == Lower(b)
        intEnd == DigitsEnd(b, 1)
        hasDot == intEnd <= Len(b) /\ b[intEnd] = "."
        fracStart == IF hasDot THEN intEnd + 1 ELSE intEnd
        fracEnd == IF hasDot THEN DigitsEnd(b, fracStart) ELSE intEnd
        nDigits == (intEnd - 1) + (fracEnd - fracStart)
        hasExp == fracEnd <= Len(b) /\ b[fracEnd] \in {"e", "E"}
        expSigned == hasExp /\ fracEnd + 1 <= Len(b) /\ b[fracEnd + 1] \in {"+", "-"}
        expStart == IF expSigned THEN fracEnd + 2 ELSE fracEnd + 1
        expEnd == IF hasExp THEN DigitsEnd(b, expStart) ELSE fracEnd
        expOk == ~hasExp \/ expEnd > expStart
        expAbs == IF hasExp THEN DigitsValue(Slice(b, expStart, expEnd)) ELSE 0
        expVal == IF expSigned /\ b[fracEnd + 1] = "-" THEN 0 - expAbs ELSE expAbs
        mant == DigitsValue(Slice(b, 1, intEnd) \o Slice(b, fracStart, fracEnd))
    IN  IF low \in {<<"i", "n", "f">>, <<"i", "n", "f", "i", "n", "i", "t", "y">>}
        THEN [kind |-> "inf", neg |-> neg, mant |-> 0, exp |-> 0]
        ELSE IF low = <<"n", "a", "n">>
        THEN [kind |-> "nan", neg |-> neg, mant |-> 0, exp |-> 0]
        ELSE IF nDigits >= 1 /\ expOk /\ expEnd = Len(b) + 1
        THEN Canonical(neg, mant, expVal - (fracEnd - fracStart))
        ELSE FloatError

\* cleaned_str = re.sub(r'\s+', '', str(value_str)).replace(',', '.')
CleanAmount(s) ==
    LET t == RemoveChars(s, Whitespace)
    IN  [i \in 1..Len(t) |-> IF t[i] = "," THEN "." ELSE t[i]]

safe_float(value_str) ==
    IF ~Truthy(value_str) THEN FloatZero
    ELSE LET f == PyFloat(CleanAmount(value_str))
         IN  IF f.kind = "error" THEN FloatZero ELSE f

\* Python's comparisons of a float with 0: every comparison with nan is False.
FloatLeZero(f) ==
    CASE f.kind = "nan" -> FALSE
      [] f.kind = "inf" -> f.neg
      [] OTHER -> f.mant = 0 \/ f.neg
FloatGtZero(f) ==
    CASE f.kind = "nan" -> FALSE
      [] f.kind = "inf" -> ~f.neg
      [] OTHER -> f.mant > 0 /\ ~f.neg

-----------------------------------------------------------------------------
(* utils.py: parse_date *)

NoDate == [ok |-> FALSE, year |-> 0, month |-> 0, day |-> 0]

IsLeap(y) == (y % 4 = 0 /\ y % 100 # 0) \/ y % 400 = 0
DaysInMonth(y, m) ==
    IF m = 2 THEN (IF IsLeap(y) THEN 29 ELSE 28)
    ELSE IF m \in {4, 6, 9, 11} THEN 30 ELSE 31

\* datetime(year, month, day) does not raise ValueError.
ValidDate(y, m, d) ==
    /\ y >= 1 /\ y <= 9999
    /\ m >= 1 /\ m <= 12
    /\ d >= 1 /\ d <= DaysInMonth(y, m)

\* The end (exclusive) of what one strptime directive matches at position i of s,
\* or 0 when it does not match.  The regular expressions are those of _strptime:
\*   %d  3[0-1]|[1-2]\d|0[1-9]|[1-9]| [1-9]
\*   %m  1[0-2]|0[1-9]|[1-9]
\*   %Y  \d\d\d\d
\* A literal of the format must follow or end the string, and it is never a digit,
\* so the first alternative that matches is the one the match keeps.
DirectiveEnd(s, i, dir) ==
    LET c1 == IF i <= Len(s) THEN s[i] ELSE "$"
        c2 == IF i + 1 <= Len(s) THEN s[i + 1] ELSE "$"
    IN  CASE dir = "%d" ->
               IF c1 = "3" /\ c2 \in {"0", "1"} THEN i + 2
               ELSE IF c1 \in {"1", "2"} /\ IsDigit(c2) THEN i + 2
               ELSE IF c1 = "0" /\ IsDigit(c2) /\ c2 # "0" THEN i + 2
               ELSE IF IsDigit(c1) /\ c1 # "0" THEN i + 1
               ELSE IF c1 = " " /\ IsDigit(c2) /\ c2 # "0" THEN i + 2
               ELSE 0
          [] dir = "%m" ->
               IF c1 = "1" /\ c2 \in {"0", "1", "2"} THEN i + 2
               ELSE IF c1 = "0" /\ IsDigit(c2) /\ c2 # "0" THEN i + 2
               ELSE IF IsDigit(c1) /\ c1 # "0" THEN i + 1
               ELSE 0
          [] dir = "%Y" ->
               IF i + 3 <= Len(s) /\ \A k \in 0..3 : IsDigit(s[i + k]) THEN i + 4 ELSE 0
          [] OTHER -> IF c1 = dir THEN i + 1 ELSE 0

\* datetime.strptime(s, fmt) from position i of s and item k of the format, with
\* the fields read so far; NoDate stands for ValueError (no match, unconverted
\* data, or a date that does not exist).
RECURSIVE StrptimeFrom(_, _, _, _, _)
StrptimeFrom(s, i, fmt, k, acc) ==
    IF k > Len(fmt)
    THEN IF i = Len(s) + 1 /\ ValidDate(acc.year, acc.month, acc.day)
         THEN [acc EXCEPT !.ok = TRUE] ELSE NoDate
    ELSE LET e == DirectiveEnd(s, i, fmt[k])
             v == DigitsValue(RemoveChars(Slice(s, i, e), {" "}))
         IN  IF e = 0 THEN NoDate
             ELSE StrptimeFrom(s, e, fmt, k + 1,
                               CASE fmt[k] = "%d" -> [acc EXCEPT !.day = v]
                                 [] fmt[k] = "%m" -> [acc EXCEPT !.month = v]
                                 [] fmt[k] = "%Y" -> [acc EXCEPT !.year = v]
                                 [] OTHER -> acc)
Strptime(s, fmt) == StrptimeFrom(s, 1, fmt, 1, NoDate)

\* for fmt in ('%d.%m.%Y', '%d-%m-%Y', '%Y.%m.%d', '%Y-%m-%d')
DateFormats ==
    << <<"%d", ".", "%m", ".", "%Y">>, <<"%d", "-", "%m", "-", "%Y">>,
       <<"%Y", ".", "%m", ".", "%d">>, <<"%Y", "-", "%m", "-", "%d">> >>

RECURSIVE TryFormats(_, _)
TryFormats(s, k) ==
    IF k > Len(DateFormats) THEN NoDate
    ELSE LET r == Strptime(s, DateFormats[k])
         IN  IF r.ok THEN r ELSE TryFormats(s, k + 1)

parse_date(date_str) ==
    IF ~Truthy(date_str) THEN NoDate ELSE TryFormats(date_str, 1)

\* str(n) of a natural number.
RECURSIVE NatToStr(_)
NatToStr(n) ==
    IF n < 10 THEN <<DigitSeq[n + 1]>>
    ELSE NatToStr(n \div 10) \o <<DigitSeq[(n % 10) + 1]>>
Pad2(n) == IF n < 10 THEN <<"0">> \o NatToStr(n) ELSE NatToStr(n)

\* date_oper.strftime('%Y-%m-%d'): glibc writes the year without padding.
FormatDate(dt) == NatToStr(dt.year) \o <<"-">> \o Pad2(dt.month) \o <<"-">> \o Pad2(dt.day)

-----------------------------------------------------------------------------
(* utils.py: get_best_name, get_doc_party_name *)

\* A Counter is the sequence of its [name, count] items in insertion order.
\* Counter.update([name])
CounterAdd(counter, name) ==
    IF \E i \in DOMAIN counter : counter[i].name = name
    THEN [i \in DOMAIN counter |->
            IF counter[i].name = name
            THEN [counter[i] EXCEPT !.count = @ + 1] ELSE counter[i]]
    ELSE Append(counter, [name |-> name, count |-> 1])

\* valid_names: the items whose name is non-empty, is not "?" and does not hold
\* default_prefix.
ValidNameItem(item, default_prefix) ==
    /\ Truthy(item.name)
    /\ ~Contains(item.name, default_prefix)
    /\ item.name # <<"?">>

\* A faulty best name: the shortest of the most frequent names.
get_best_name_shortest(names_counter, default_prefix) ==
    LET valid == {i \in DOMAIN names_counter :
                     ValidNameItem(names_counter[i], default_prefix)}
        Before(i, j) ==
            \/ names_counter[i].count > names_counter[j].count
            \/ /\ names_counter[i].count = names_counter[j].count
               /\ Len(names_counter[i].name) < Len(names_counter[j].name)
            \/ /\ names_counter[i].count = names_counter[j].count
               /\ Len(names_counter[i].name) = Len(names_counter[j].name)
               /\ i <= j
    IN  IF valid = {} THEN None
        ELSE names_counter[CHOOSE i \in valid : \A j \in valid : Before(i, j)].name

\* A faulty best name: the first of the most frequent names, whatever their lengths.
get_best_name_first(names_counter, default_prefix) ==
    LET valid == {i \in DOMAIN names_counter :
                     ValidNameItem(names_counter[i], default_prefix)}
        Before(i, j) ==
            \/ names_counter[i].count > names_counter[j].count
            \/ /\ names_counter[i].count = names_counter[j].count
               /\ i <= j
    IN  IF valid = {} THEN None
        ELSE names_counter[CHOOSE i \in valid : \A j \in valid : Before(i, j)].name

\* sorted(valid_names.items(), key=lambda item: (-item[1], -len(item[0])))[0][0]:
\* the sort is stable, so equal keys keep the counter's insertion order.
get_best_name(names_counter, default_prefix) ==
    LET valid == {i \in DOMAIN names_counter :
                     ValidNameItem(names_counter[i], default_prefix)}
        Before(i, j) ==
            \/ names_counter[i].count > names_counter[j].count
            \/ /\ names_counter[i].count = names_counter[j].count
               /\ Len(names_counter[i].name) > Len(names_counter[j].name)
            \/ /\ names_counter[i].count = names_counter[j].count
               /\ Len(names_counter[i].name) = Len(names_counter[j].name)
               /\ i <= j
    IN  IF valid = {} THEN None
        ELSE names_counter[CHOOSE i \in valid : \A j \in valid : Before(i, j)].name

\* doc.get(field, '') of a document record: an absent field is None in the model.
GetOr(doc, field, default) == IF doc[field] = None THEN default ELSE doc[field]

\* name = doc.get(base_field, '') or doc.get(alt_field, '')
\* return name.strip() if name else ''
get_doc_party_name(doc, party_type) ==
    LET base == GetOr(doc, party_type, << >>)
        alt == GetOr(doc, party_type \o "1", << >>)
        name == IF Truthy(base) THEN base ELSE alt
    IN  IF Truthy(name) THEN Strip(name) ELSE << >>

-----------------------------------------------------------------------------
(* normalization.py: the legal-form catalogue *)

\* 'ИП'
IP == <<"#I", "#P">>
\* 'ФЛ'
FL == <<"#F", "#L">>
\* 'ЮЛ'
YUL == <<"#YU", "#L">>
\* 'ДРУГОЕ'
DRUGOE == <<"#D", "#R", "#U", "#G", "#O", "#E">>
\* 'ИП/ФЛ'
IP_FL == <<"#I", "#P", "/", "#F", "#L">>

\* LEGAL_FORMS_KEYWORDS, in the dictionary's order: each form's label and its
\* keywords, in the order of its list.
LEGAL_FORMS_KEYWORDS == <<
    \* ИП
    [form |-> <<"#I", "#P">>,
     keywords |-> <<
        <<"#I", "#N", "#D", "#I", "#V", "#I", "#D", "#U", "#A", "#L", "#SS", "#N", "#Y",
          "#J", " ", "#P", "#R", "#E", "#D", "#P", "#R", "#I", "#N", "#I", "#M", "#A",
          "#T", "#E", "#L", "#SS">>,
        <<"#I", "#P">>
     >>],
    \* ООО
    [form |-> <<"#O", "#O", "#O">>,
     keywords |-> <<
        <<"#O", "#B", "#SHH", "#E", "#S", "#T", "#V", "#O", " ", "#S", " ", "#O", "#G",
          "#R", "#A", "#N", "#I", "#CH", "#E", "#N", "#N", "#O", "#J", " ", "#O", "#T",
          "#V", "#E", "#T", "#S", "#T", "#V", "#E", "#N", "#N", "#O", "#S", "#T", "#SS",
          "#YU">>,
        <<"#O", "#O", "#O">>
     >>],
    \* АО
    [form |-> <<"#A", "#O">>,
     keywords |-> <<
        <<"#P", "#U", "#B", "#L", "#I", "#CH", "#N", "#O", "#E", " ", "#A", "#K", "#C",
          "#I", "#O", "#N", "#E", "#R", "#N", "#O", "#E", " ", "#O", "#B", "#SHH", "#E",
          "#S", "#T", "#V", "#O">>,
        <<"#N", "#E", "#P", "#U", "#B", "#L", "#I", "#CH", "#N", "#O", "#E", " ", "#A",
          "#K", "#C", "#I", "#O", "#N", "#E", "#R", "#N", "#O", "#E", " ", "#O", "#B",
          "#SHH", "#E", "#S", "#T", "#V", "#O">>,
        <<"#A", "#K", "#C", "#I", "#O", "#N", "#E", "#R", "#N", "#O", "#E", " ", "#O",
          "#B", "#SHH", "#E", "#S", "#T", "#V", "#O">>,
        <<"#Z", "#A", "#K", "#R", "#Y", "#T", "#O", "#E", " ", "#A", "#K", "#C", "#I",
          "#O", "#N", "#E", "#R", "#N", "#O", "#E", " ", "#O", "#B", "#SHH", "#E", "#S",
          "#T", "#V", "#O">>,
        <<"#O", "#T", "#K", "#R", "#Y", "#T", "#O", "#E", " ", "#A", "#K", "#C", "#I",
          "#O", "#N", "#E", "#R", "#N", "#O", "#E", " ", "#O", "#B", "#SHH", "#E", "#S",
          "#T", "#V", "#O">>,
        <<"#P", "#A", "#O">>,
        <<"#N", "#A", "#O">>,
        <<"#Z", "#A", "#O">>,
        <<"#O", "#A", "#O">>,
        <<"#A", "#O">>
     >>],
    \* ГОС
    [form |-> <<"#G", "#O", "#S">>,
     keywords |-> <<
        <<"#G", "#O", "#S", "#U", "#D", "#A", "#R", "#S", "#T", "#V", "#E", "#N", "#N",
          "#O", "#E", " ", "#U", "#CH", "#R", "#E", "#ZH", "#D", "#E", "#N", "#I",
          "#E">>,
        <<"#F", "#O", "#N", "#D", " ", "#S", "#O", "#C", "#I", "#A", "#L", "#SS", "#N",
          "#O", "#G", "#O", " ", "#S", "#T", "#R", "#A", "#H", "#O", "#V", "#A", "#N",
          "#I", "#YA">>,
        <<"#I", "#F", "#N", "#S">>,
        <<"#U", "#F", "#K">>,
        <<"#G", "#U">>,
        <<"#F", "#S", "#S">>,
        <<"#F", "#G", "#B", "#U">>,
        <<"#F", "#K", "#U">>,
        <<"#F", "#A", "#U">>,
        <<"#F", "#G", "#U", "#P">>,
        <<"#M", "#I", "#N", "#I", "#S", "#T", "#E", "#R", "#S", "#T", "#V", "#O">>,
        <<"#D", "#E", "#P", "#A", "#R", "#T", "#A", "#M", "#E", "#N", "#T">>,
        <<"#A", "#D", "#M", "#I", "#N", "#I", "#S", "#T", "#R", "#A", "#C", "#I",
          "#YA">>,
        <<"#K", "#A", "#Z", "#N", "#A", "#CH", "#E", "#J", "#S", "#T", "#V", "#O">>,
        <<"#R", "#O", "#S", "#P", "#O", "#T", "#R", "#E", "#B", "#N", "#A", "#D", "#Z",
          "#O", "#R">>,
        <<"#R", "#O", "#S", "#M", "#O", "#L", "#O", "#D", "#E", "#ZH", "#SS">>,
        <<"#U", "#P", "#R", "#A", "#V", "#L", "#E", "#N", "#I", "#E", " ", "#M", "#V",
          "#D">>,
        <<"#O", "#T", "#D", "#E", "#L", "#E", "#N", "#I", "#E", " ", "#F", "#O", "#N",
          "#D", "#A">>,
        <<"#T", "#U", "#R", "#I", "#S", "#T", "#I", "#CH", "#E", "#S", "#K", "#I", "#J",
          " ", "#O", "#T", "#D", "#E", "#L">>,
        <<"#P", "#O", "#S", "#O", "#L", "#SS", "#S", "#T", "#V", "#O">>,
        <<"#U", "#G", "#I", "#B", "#D", "#D">>,
        <<"#O", "#S", "#P">>,
        <<"#A", "#D", "#M", "#I", "#N", "#I", "#S", "#T", "#R", "#A", "#T", "#O", "#R",
          " ", "#M", "#O", "#S", "#K", "#O", "#V", "#S", "#K", "#O", "#G", "#O", " ",
          "#P", "#A", "#R", "#K", "#O", "#V", "#O", "#CH", "#N", "#O", "#G", "#O">>
     >>],
    \* ФОНД
    [form |-> <<"#F", "#O", "#N", "#D">>,
     keywords |-> <<
        <<"#B", "#L", "#A", "#G", "#O", "#T", "#V", "#O", "#R", "#I", "#T", "#E", "#L",
          "#SS", "#N", "#Y", "#J", " ", "#F", "#O", "#N", "#D">>,
        <<"#F", "#O", "#N", "#D">>
     >>],
    \* АНО
    [form |-> <<"#A", "#N", "#O">>,
     keywords |-> <<
        <<"#A", "#V", "#T", "#O", "#N", "#O", "#M", "#N", "#A", "#YA", " ", "#N", "#E",
          "#K", "#O", "#M", "#M", "#E", "#R", "#CH", "#E", "#S", "#K", "#A", "#YA", " ",
          "#O", "#R", "#G", "#A", "#N", "#I", "#Z", "#A", "#C", "#I", "#YA">>,
        <<"#A", "#N", "#O">>
     >>],
    \* НКО
    [form |-> <<"#N", "#K", "#O">>,
     keywords |-> <<
        <<"#N", "#E", "#K", "#O", "#M", "#M", "#E", "#R", "#CH", "#E", "#S", "#K", "#A",
          "#YA", " ", "#O", "#R", "#G", "#A", "#N", "#I", "#Z", "#A", "#C", "#I",
          "#YA">>,
        <<"#N", "#K", "#O">>
     >>],
    \* АССОЦ
    [form |-> <<"#A", "#S", "#S", "#O", "#C">>,
     keywords |-> <<
        <<"#A", "#S", "#S", "#O", "#C", "#I", "#A", "#C", "#I", "#YA">>
     >>],
    \* КООП
    [form |-> <<"#K", "#O", "#O", "#P">>,
     keywords |-> <<
        <<"#K", "#O", "#O", "#P", "#E", "#R", "#A", "#T", "#I", "#V">>,
        <<"#K", "#F", "#H">>
     >>],
    \* ПАРТНЕРСТВО
    [form |-> <<"#P", "#A", "#R", "#T", "#N", "#E", "#R", "#S", "#T", "#V", "#O">>,
     keywords |-> <<
        <<"#P", "#A", "#R", "#T", "#N", "#E", "#R", "#S", "#T", "#V", "#O">>,
        <<"#N", "#P">>
     >>],
    \* АДВ_БЮРО
    [form |-> <<"#A", "#D", "#V", "_", "#B", "#YU", "#R", "#O">>,
     keywords |-> <<
        <<"#A", "#D", "#V", "#O", "#K", "#A", "#T", "#S", "#K", "#O", "#E", " ", "#B",
          "#YU", "#R", "#O">>
     >>],
    \* КОЛЛ_АДВ
    [form |-> <<"#K", "#O", "#L", "#L", "_", "#A", "#D", "#V">>,
     keywords |-> <<
        <<"#K", "#O", "#L", "#L", "#E", "#G", "#I", "#YA", " ", "#A", "#D", "#V", "#O",
          "#K", "#A", "#T", "#O", "#V">>
     >>],
    \* ФИЛИАЛ
    [form |-> <<"#F", "#I", "#L", "#I", "#A", "#L">>,
     keywords |-> <<
        <<"#F", "#I", "#L", "#I", "#A", "#L">>,
        <<"#P", "#R", "#E", "#D", "#S", "#T", "#A", "#V", "#I", "#T", "#E", "#L", "#SS",
          "#S", "#T", "#V", "#O">>
     >>],
    \* LTD
    [form |-> <<"L", "T", "D">>,
     keywords |-> <<
        <<"L", "I", "M", "I", "T", "E", "D">>,
        <<"L", "T", "D">>
     >>],
    \* LLC
    [form |-> <<"L", "L", "C">>,
     keywords |-> <<
        <<"L", "L", "C">>
     >>],
    \* GMBH
    [form |-> <<"G", "M", "B", "H">>,
     keywords |-> <<
        <<"G", "M", "B", "H">>
     >>],
    \* SIA
    [form |-> <<"S", "I", "A">>,
     keywords |-> <<
        <<"S", "I", "A">>
     >>],
    \* AS
    [form |-> <<"A", "S">>,
     keywords |-> <<
        <<"A", "S">>
     >>],
    \* UAB
    [form |-> <<"U", "A", "B">>,
     keywords |-> <<
        <<"U", "A", "B">>
     >>],
    \* TOO
    [form |-> <<"T", "O", "O">>,
     keywords |-> <<
        <<"T", "O", "O">>
     >>],
    \* CORP
    [form |-> <<"C", "O", "R", "P">>,
     keywords |-> <<
        <<"C", "O", "R", "P", "O", "R", "A", "T", "I", "O", "N">>,
        <<"C", "O", "R", "P">>
     >>],
    \* INC
    [form |-> <<"I", "N", "C">>,
     keywords |-> <<
        <<"I", "N", "C">>
     >>],
    \* PLC
    [form |-> <<"P", "L", "C">>,
     keywords |-> <<
        <<"P", "L", "C">>
     >>]
>>

-----------------------------------------------------------------------------
(* normalization.py: detect_final_legal_form *)

\* \(\s*KW\s*\) matched at position i of s.
ParenKeywordAt(s, i, kw) ==
    /\ i <= Len(s) /\ s[i] = "("
    /\ LET j == SkipSpaces(s, i + 1)
           k == SkipSpaces(s, j + Len(kw))
       IN  MatchLit(s, j, kw) /\ k <= Len(s) /\ s[k] = ")"

\* \bKW\b matched at position i of s.
WordKeywordAt(s, i, kw) ==
    /\ MatchLit(s, i, kw)
    /\ WordBoundary(s, i)
    /\ WordBoundary(s, i + Len(kw))

\* COMPILED_LEGAL_FORMS_FIND: whether the FIND pattern of keyword kw of a form has
\* a match in s.  For the form IP the pattern is (?:^KW\s+)|(?:\(\s*KW\s*\)), for
\* every other form \bKW\b|\(\s*KW\s*\), both ignoring case.
KeywordFound(s, form, kw) ==
    IF form = IP
    THEN \/ /\ MatchLit(s, 1, kw)
            /\ Len(kw) + 1 <= Len(s)
            /\ IsSpace(s[Len(kw) + 1])
         \/ \E i \in 1..Len(s) : ParenKeywordAt(s, i, kw)
    ELSE \E i \in 1..Len(s) : WordKeywordAt(s, i, kw) \/ ParenKeywordAt(s, i, kw)

\* The keywords <<f, k>> (form f of the catalogue, its keyword k) whose FIND
\* pattern has a match in s.
FoundKeywords(s) ==
    {p \in UNION {{<<f, k>> : k \in DOMAIN LEGAL_FORMS_KEYWORDS[f].keywords} :
                  f \in DOMAIN LEGAL_FORMS_KEYWORDS} :
        KeywordFound(s, LEGAL_FORMS_KEYWORDS[p[1]].form,
                     LEGAL_FORMS_KEYWORDS[p[1]].keywords[p[2]])}

\* The loops over COMPILED_LEGAL_FORMS_FIND.items(), the patterns of a form and the
\* matches of a pattern.  Every match of a pattern has the keyword's length once
\* stripped of '() ' (the whitespace of a name being blanks).  max_len only grows, and only a strictly longer match or a
\* match of the form IP of the same length replaces best_match_form: the loops
\* end with the longest length found and with the form IP if a keyword of IP has
\* that length, otherwise with the first form in the catalogue's order that has a
\* keyword of that length.
KwLen(p) == Len(LEGAL_FORMS_KEYWORDS[p[1]].keywords[p[2]])
\* Every found keyword, whatever its length.
AnyFound(found) == found
\* The found keywords of the greatest length.
LongestFound(found) ==
    LET max_len == CHOOSE n \in {KwLen(p) : p \in found} : \A p \in found : KwLen(p) <= n
    IN  {p \in found : KwLen(p) = max_len}
\* The first of a set of keywords in the catalogue's order.
FirstKeyword(longest) ==
    CHOOSE p \in longest : \A q \in longest : p[1] < q[1] \/ (p[1] = q[1] /\ p[2] <= q[2])
FormOfLongest(longest) ==
    IF \E p \in longest : LEGAL_FORMS_KEYWORDS[p[1]].form = IP THEN IP
    ELSE LEGAL_FORMS_KEYWORDS[FirstKeyword(longest)[1]].form
FormOfFound(found) == IF found = {} THEN None ELSE FormOfLongest(LongestFound(found))
BestForm(s) == FormOfFound(FoundKeywords(s))

\* fio_words = re.findall(r'\b[А-ЯЁ][а-яё\-]+\b', s): the end (exclusive) of the
\* word that starts at i, or 0.
FioLower == CyrLower \cup {"-"}
RECURSIVE FioRunEnd(_, _)
FioRunEnd(s, i) ==
    IF i <= Len(s) /\ s[i] \in FioLower THEN FioRunEnd(s, i + 1) ELSE i
FioWordEnd(s, i) ==
    IF ~(WordBoundary(s, i) /\ s[i] \in CyrUpper) THEN 0
    ELSE LET r == FioRunEnd(s, i + 1)
             ends == {e \in (i + 2)..r : WordBoundary(s, e)}
         IN  IF ends = {} THEN 0 ELSE CHOOSE e \in ends : \A x \in ends : x <= e
RECURSIVE CountFioWords(_, _)
CountFioWords(s, i) ==
    IF i > Len(s) THEN 0
    ELSE LET e == FioWordEnd(s, i)
         IN  IF e > 0 THEN 1 + CountFioWords(s, e) ELSE CountFioWords(s, i + 1)

\* IS_FIO_STRUCTURE = ^([А-ЯЁа-яё\-]+\s+)+[А-ЯЁа-яё\-.]+$ : words of Cyrillic
\* letters and hyphens separated by whitespace, at least two, the last of which
\* may hold dots.
FioChars == CyrUpper \cup CyrLower \cup {"-"}
IS_FIO_STRUCTURE(s) ==
    /\ s # << >>
    /\ ~IsSpace(s[1]) /\ ~IsSpace(s[Len(s)])
    /\ \E i \in 1..Len(s) : IsSpace(s[i])
    /\ LET last == CHOOSE i \in 1..Len(s) :
                       IsSpace(s[i]) /\ \A j \in (i + 1)..Len(s) : ~IsSpace(s[j])
       IN  /\ \A i \in 1..last : s[i] \in FioChars \/ IsSpace(s[i])
           /\ \A i \in (last + 1)..Len(s) : s[i] \in FioChars \cup {"."}

\* len(fio_words) >= 2 and IS_FIO_STRUCTURE.match(name_for_fio_check)
LooksLikeFio(name_for_fio_check) ==
    CountFioWords(name_for_fio_check, 1) >= 2 /\ IS_FIO_STRUCTURE(name_for_fio_check)

\* The form when the length of the tax ID is looked at before the keywords.
FormByInnFirst(raw_name, inn, best_match_form) ==
    IF Truthy(inn) /\ Len(Strip(inn)) = 12 THEN FL
    ELSE IF Truthy(inn) /\ Len(Strip(inn)) = 10 THEN YUL
    ELSE IF best_match_form # None THEN best_match_form
    ELSE IF LooksLikeFio(Strip(RemoveChars(raw_name, Digits \cup {".", ",", "\"", "'"})))
    THEN FL
    ELSE DRUGOE

\* Lines 86-106: the form once the keywords gave best_match_form.
FormAfterKeywords(raw_name, inn, best_match_form) ==
    IF best_match_form # None THEN best_match_form
    ELSE IF Truthy(inn) /\ Len(Strip(inn)) = 12 THEN FL
    ELSE IF Truthy(inn) /\ Len(Strip(inn)) = 10 THEN YUL
    \* name_for_fio_check = re.sub(r'[\d.,\"\']', '', raw_name).strip()
    ELSE IF LooksLikeFio(Strip(RemoveChars(raw_name, Digits \cup {".", ",", "\"", "'"})))
    THEN FL
    ELSE DRUGOE

\* Lines 71-106: the form of a name whose upper_name is given.
FormOfUpper(raw_name, inn, upper_name) ==
    IF upper_name = << >> THEN FL
    ELSE FormAfterKeywords(raw_name, inn, BestForm(upper_name))

detect_final_legal_form(raw_name, inn) ==
    IF ~Truthy(raw_name) THEN FL
    ELSE FormOfUpper(raw_name, inn, Strip(Upper(raw_name)))

-----------------------------------------------------------------------------
(* normalization.py: TRASH_PATTERNS_SPECIFIC *)

\* pattern.sub(' ', s): MatchEnd(s, i) is the end (exclusive) of
\* the pattern's match that starts at i, or 0; matches are replaced left to right
\* and do not overlap.  No pattern of the module matches the empty string.
Sub(s, MatchEnd(_, _)) ==
    LET from[i \in 1..(Len(s) + 1)] ==
            IF i > Len(s) THEN << >>
            ELSE LET e == MatchEnd(s, i)
                 IN  IF e > i THEN <<" ">> \o from[e] ELSE <<s[i]>> \o from[i + 1]
    IN  from[1]

\* Whether the literal lit stands at position i of s, case-sensitively.
MatchExact(s, i, lit) ==
    /\ i >= 1
    /\ i + Len(lit) - 1 <= Len(s)
    /\ \A k \in 1..Len(lit) : s[i + k - 1] = lit[k]

\* The end (exclusive) of the first word of the sequence words that stands at i,
\* reads to a word boundary and ignores case; 0 if none does: (W1|W2|...)\b
RECURSIVE WordOfAt(_, _, _, _)
WordOfAt(s, i, words, k) ==
    IF k > Len(words) THEN 0
    ELSE IF MatchLit(s, i, words[k]) /\ WordBoundary(s, i + Len(words[k]))
    THEN i + Len(words[k])
    ELSE WordOfAt(s, i, words, k + 1)

\* #0  (?:^|\s)(?:Р/СЧ?|Л/СЧ?|К/СЧ?|БИК)\s*\d+.*   IGNORECASE
AccountKeywordEnds(s, k) ==
    LET slash == {k + 3 : w \in {w \in {<<"#R", "/", "#S">>, <<"#L", "/", "#S">>,
                                         <<"#K", "/", "#S">>} : MatchLit(s, k, w)}}
        withCh == {e + 1 : e \in {e \in slash : MatchLit(s, e, <<"#CH">>)}}
        bik == IF MatchLit(s, k, <<"#B", "#I", "#K">>) THEN {k + 3} ELSE {}
    IN  slash \cup withCh \cup bik
Trash0At(s, k) ==
    \E e \in AccountKeywordEnds(s, k) :
        LET d == SkipSpaces(s, e) IN d <= Len(s) /\ IsDigit(s[d])
Trash0End(s, i) ==
    IF (i = 1 /\ Trash0At(s, 1)) \/ (IsSpace(s[i]) /\ Trash0At(s, i + 1))
    THEN Len(s) + 1 ELSE 0

\* \s+\bKW\s*<digits>\b at i, where the run of digits has one of the lengths of
\* lens (any length >= 1 when lens is empty): the end of the match, or 0.
TaxIdEnd(s, i, kws, lens) ==
    IF ~IsSpace(s[i]) THEN 0
    ELSE LET j == SkipSpaces(s, i)
             hit == {kw \in kws : MatchLit(s, j, kw)}
         IN  IF hit = {} THEN 0
             ELSE LET kw == CHOOSE w \in hit : TRUE
                      d == SkipSpaces(s, j + Len(kw))
                      e == DigitsEnd(s, d)
                  IN  IF e > d /\ (lens = {} \/ (e - d) \in lens) /\ WordBoundary(s, e)
                      THEN e ELSE 0

\* #1  \s+\bИНН\s*\d{10}(\d{2})?\b   IGNORECASE
Trash1End(s, i) == TaxIdEnd(s, i, {<<"#I", "#N", "#N">>}, {10, 12})
\* #2  \s+\bКПП\s*\d{9}\b   IGNORECASE
Trash2End(s, i) == TaxIdEnd(s, i, {<<"#K", "#P", "#P">>}, {9})
\* #3  \s+\b(УНП|БИН)\s*\d+\b   IGNORECASE
Trash3End(s, i) == TaxIdEnd(s, i, {<<"#U", "#N", "#P">>, <<"#B", "#I", "#N">>}, {})

\* #4  \s+ID[/\s:]*\d+   (case-sensitive)
RECURSIVE SkipIdSeparators(_, _)
SkipIdSeparators(s, i) ==
    IF i <= Len(s) /\ (s[i] \in {"/", ":"} \/ IsSpace(s[i]))
    THEN SkipIdSeparators(s, i + 1) ELSE i
Trash4End(s, i) ==
    IF ~IsSpace(s[i]) THEN 0
    ELSE LET j == SkipSpaces(s, i)
             d == SkipIdSeparators(s, j + 2)
             e == DigitsEnd(s, d)
         IN  IF MatchExact(s, j, <<"I", "D">>) /\ e > d THEN e ELSE 0

\* #5  \s*//.*?//\s*   DOTALL
Trash5End(s, i) ==
    LET j == SkipSpaces(s, i)
        closers == {k \in (j + 2)..Len(s) : MatchExact(s, k, <<"/", "/">>)}
    IN  IF MatchExact(s, j, <<"/", "/">>) /\ closers # {}
        THEN SkipSpaces(s, (CHOOSE k \in closers : \A x \in closers : k <= x) + 2)
        ELSE 0

\* #6  \s+\b(РОССИЯ|РФ|РЕСПУБЛИКА|КАЗАХСТАН|ЛИТВА|ЛАТВИЯ|РБ|KZ|LT|LV|DE|ГОРОД|
\*     ОБЛАСТЬ|КРАЙ|АО|ГО)\b.*?(?=(//|$|\s+В\s+\w+\s+БАНК))   IGNORECASE | DOTALL
RegionWords ==
    << <<"#R", "#O", "#S", "#S", "#I", "#YA">>,
       <<"#R", "#F">>,
       <<"#R", "#E", "#S", "#P", "#U", "#B", "#L", "#I", "#K", "#A">>,
       <<"#K", "#A", "#Z", "#A", "#H", "#S", "#T", "#A", "#N">>,
       <<"#L", "#I", "#T", "#V", "#A">>,
       <<"#L", "#A", "#T", "#V", "#I", "#YA">>,
       <<"#R", "#B">>,
       <<"K", "Z">>,
       <<"L", "T">>,
       <<"L", "V">>,
       <<"D", "E">>,
       <<"#G", "#O", "#R", "#O", "#D">>,
       <<"#O", "#B", "#L", "#A", "#S", "#T", "#SS">>,
       <<"#K", "#R", "#A", "#J">>,
       <<"#A", "#O">>,
       <<"#G", "#O">> >>
RECURSIVE WordRunEnd(_, _)
WordRunEnd(s, i) ==
    IF i <= Len(s) /\ IsWordCh(s[i]) THEN WordRunEnd(s, i + 1) ELSE i
\* \s+В\s+\w+\s+БАНК at position e
InSomeBankAt(s, e) ==
    /\ e <= Len(s) /\ IsSpace(s[e])
    /\ LET v == SkipSpaces(s, e)
           w == SkipSpaces(s, v + 1)
           x == WordRunEnd(s, w)
           b == SkipSpaces(s, x)
       IN  /\ MatchLit(s, v, <<"#V">>)
           /\ w > v + 1
           /\ x > w
           /\ b > x
           /\ MatchLit(s, b, <<"#B", "#A", "#N", "#K">>)
RegionStop(s, e) ==
    \/ e = Len(s) + 1
    \/ MatchExact(s, e, <<"/", "/">>)
    \/ InSomeBankAt(s, e)
Trash6End(s, i) ==
    IF ~IsSpace(s[i]) THEN 0
    ELSE LET j == SkipSpaces(s, i)
             w == WordOfAt(s, j, RegionWords, 1)
         IN  IF w = 0 THEN 0
             ELSE CHOOSE e \in w..(Len(s) + 1) :
                      RegionStop(s, e) /\ \A x \in w..(e - 1) : ~RegionStop(s, x)

\* #7  \b\d{6}\b
Trash7End(s, i) ==
    IF WordBoundary(s, i) /\ DigitsEnd(s, i) = i + 6 /\ WordBoundary(s, i + 6)
    THEN i + 6 ELSE 0

\* #8  \s+В\s+.*?\s+(БАНК\b|ФИЛИАЛ\b|ОАО\b|ПАО\b|АО\b|УФК\b|ОТДЕЛЕНИЕ\b)
\*     IGNORECASE | DOTALL
BankWords ==
    << <<"#B", "#A", "#N", "#K">>,
       <<"#F", "#I", "#L", "#I", "#A", "#L">>,
       <<"#O", "#A", "#O">>,
       <<"#P", "#A", "#O">>,
       <<"#A", "#O">>,
       <<"#U", "#F", "#K">>,
       <<"#O", "#T", "#D", "#E", "#L", "#E", "#N", "#I", "#E">> >>
\* The second \s+ takes the whole run of whitespace after the preposition, and the
\* lazy .*? then grows to the first later whitespace followed by a bank word; only
\* when there is none does the second \s+ give back whitespace, so that the bank
\* word may follow the preposition directly, two or more whitespace after it.
Trash8End(s, i) ==
    IF ~IsSpace(s[i]) THEN 0
    ELSE LET j == SkipSpaces(s, i)
             k == SkipSpaces(s, j + 1)
             later == {p \in k..Len(s) :
                          IsSpace(s[p]) /\ WordOfAt(s, SkipSpaces(s, p), BankWords, 1) > 0}
             first == CHOOSE p \in later : \A x \in later : p <= x
         IN  IF ~(MatchLit(s, j, <<"#V">>) /\ k > j + 1) THEN 0
             ELSE IF later # {} THEN WordOfAt(s, SkipSpaces(s, first), BankWords, 1)
             ELSE IF k > j + 2 THEN WordOfAt(s, k, BankWords, 1)
             ELSE 0

\* #9  \s+Р/С\s+NULL\b   IGNORECASE
Trash9End(s, i) ==
    IF ~IsSpace(s[i]) THEN 0
    ELSE LET j == SkipSpaces(s, i)
             n == SkipSpaces(s, j + 3)
         IN  IF /\ MatchLit(s, j, <<"#R", "/", "#S">>)
                /\ n > j + 3
                /\ MatchLit(s, n, <<"N", "U", "L", "L">>)
                /\ WordBoundary(s, n + 4)
             THEN n + 4 ELSE 0

\* #10  \s+\(.*\)$   DOTALL
Trash10End(s, i) ==
    IF ~IsSpace(s[i]) THEN 0
    ELSE LET j == SkipSpaces(s, i)
         IN  IF j < Len(s) /\ s[j] = "(" /\ s[Len(s)] = ")" THEN Len(s) + 1 ELSE 0

\* TRASH_PATTERNS_SPECIFIC[i].sub(' ', s)
TrashPatternSub(i, s) ==
    CASE i = 0 -> Sub(s, Trash0End)
      [] i = 1 -> Sub(s, Trash1End)
      [] i = 2 -> Sub(s, Trash2End)
      [] i = 3 -> Sub(s, Trash3End)
      [] i = 4 -> Sub(s, Trash4End)
      [] i = 5 -> Sub(s, Trash5End)
      [] i = 6 -> Sub(s, Trash6End)
      [] i = 7 -> Sub(s, Trash7End)
      [] i = 8 -> Sub(s, Trash8End)
      [] i = 9 -> Sub(s, Trash9End)
      [] i = 10 -> Sub(s, Trash10End)

\* for i, pattern in enumerate(TRASH_PATTERNS_SPECIFIC): cleaned = pattern.sub(' ', cleaned)
\* One pass over the eleven patterns, in the list's order.
ApplyTrashPatterns(name) ==
    LET c0 == Sub(name, Trash0End)
        c1 == Sub(c0, Trash1End)
        c2 == Sub(c1, Trash2End)
        c3 == Sub(c2, Trash3End)
        c4 == Sub(c3, Trash4End)
        c5 == Sub(c4, Trash5End)
        c6 == Sub(c5, Trash6End)
        c7 == Sub(c6, Trash7End)
        c8 == Sub(c7, Trash8End)
        c9 == Sub(c8, Trash9End)
    IN  Sub(c9, Trash10End)

-----------------------------------------------------------------------------
(* normalization.py: format_fio_display *)

\* QUOTES_PATTERN = [\"„""«»\'`<>]+ ("#,," is the low double quote, "#<<" and
\* "#>>" the angle quotes, "#bt" the backtick)
QuoteChars == {"\"", "#,,", "#<<", "#>>", "'", "#bt", "<", ">"}

\* str.split(): the words of s between runs of whitespace.
RECURSIVE NonSpaceEnd(_, _)
NonSpaceEnd(s, i) ==
    IF i <= Len(s) /\ ~IsSpace(s[i]) THEN NonSpaceEnd(s, i + 1) ELSE i
RECURSIVE SplitFrom(_, _)
SplitFrom(s, i) ==
    LET j == SkipSpaces(s, i)
        e == NonSpaceEnd(s, j)
    IN  IF j > Len(s) THEN << >> ELSE <<Slice(s, j, e)>> \o SplitFrom(s, e)
Split(s) == SplitFrom(s, 1)

\* str.strip(chars)
RECURSIVE StripChars(_, _)
StripChars(s, chars) ==
    IF s # << >> /\ s[1] \in chars THEN StripChars(Tail(s), chars)
    ELSE IF s # << >> /\ s[Len(s)] \in chars
    THEN StripChars(SubSeq(s, 1, Len(s) - 1), chars)
    ELSE s

\* str.capitalize()
Capitalize(s) ==
    [i \in 1..Len(s) |-> IF i = 1 THEN UpperCh(s[i]) ELSE LowerCh(s[i])]

\* ' '.join(words)
RECURSIVE JoinSpace(_)
JoinSpace(words) ==
    IF words = << >> THEN << >>
    ELSE IF Len(words) = 1 THEN words[1]
    ELSE words[1] \o <<" ">> \o JoinSpace(Tail(words))

\* The members of a sequence that satisfy Keep, in order.
FilterSeq(seq, Keep(_)) ==
    LET upto[k \in 0..Len(seq)] ==
            IF k = 0 THEN << >>
            ELSE upto[k - 1] \o (IF Keep(seq[k]) THEN <<seq[k]>> ELSE << >>)
    IN  upto[Len(seq)]

\* INITIALS_PATTERN = \b([А-ЯЁ])\s*\.\s*([А-ЯЁ])\s*\.?$ matched at position i:
\* [ok, g1, g2]
InitialsAt(s, i) ==
    LET d1 == SkipSpaces(s, i + 1)
        c2 == SkipSpaces(s, d1 + 1)
        t == SkipSpaces(s, c2 + 1)
        ok == /\ WordBoundary(s, i)
              /\ s[i] \in CyrUpper
              /\ d1 <= Len(s) /\ s[d1] = "."
              /\ c2 <= Len(s) /\ s[c2] \in CyrUpper
              /\ \/ t = Len(s) + 1
                 \/ t = Len(s) /\ s[t] = "."
    IN  [ok |-> ok, g1 |-> s[i], g2 |-> IF ok THEN s[c2] ELSE "?"]

\* The positions where INITIALS_PATTERN matches; search() takes the least.
InitialsStarts(name) == {i \in 1..Len(name) : InitialsAt(name, i).ok}
Least(S) == CHOOSE i \in S : \A x \in S : i <= x
Last(seq) == seq[Len(seq)]

\* re.sub(r'^ИП\s+', '', stripped, flags=re.IGNORECASE)
WithoutIpPrefix(stripped) ==
    IF MatchLit(stripped, 1, IP) /\ SkipSpaces(stripped, 3) > 3
    THEN Slice(stripped, SkipSpaces(stripped, 3), Len(stripped) + 1)
    ELSE stripped

\* Lines 112-114: name
FioName(fio_str) ==
    Strip(CollapseSpaces(RemoveChars(WithoutIpPrefix(Strip(fio_str)), QuoteChars)))

\* Line 115: words = [w.strip('.,') for w in name.split() if w.strip('.,')]
NonEmpty(w) == w # << >>
StripEach(all_words) ==
    [k \in 1..Len(all_words) |-> StripChars(all_words[k], {".", ","})]
FioWords(name) == FilterSeq(StripEach(Split(name)), NonEmpty)

\* Lines 120-123: the surname before the initials that start at start, with the
\* initials; << >> when nothing stands before them.
FioOfSurname(surname_part, initials_match) ==
    IF surname_part = << >> THEN << >>
    ELSE Capitalize(Last(Split(surname_part))) \o <<" ">>
         \o <<UpperCh(initials_match.g1)>> \o <<".">>
         \o <<UpperCh(initials_match.g2)>> \o <<".">>
FioFromInitials(name, start) ==
    FioOfSurname(Strip(Slice(name, 1, start)), InitialsAt(name, start))

\* Lines 125-135
Meaningful(w) == Len(w) > 1 \/ (Len(w) = 1 /\ IsLetter(w[1]))
FioFromWords(words, meaningful_words) ==
    LET n == Len(meaningful_words)
        is_likely_fio ==
            \A k \in 1..(IF n < 3 THEN n ELSE 3) : meaningful_words[k][1] \in CyrUpper
    IN  IF n >= 3 /\ is_likely_fio
        THEN Capitalize(meaningful_words[1]) \o <<" ">>
             \o <<UpperCh(meaningful_words[2][1])>> \o <<".">>
             \o <<UpperCh(meaningful_words[3][1])>> \o <<".">>
        ELSE IF n = 2 /\ is_likely_fio
        THEN Capitalize(meaningful_words[1]) \o <<" ">> \o Capitalize(meaningful_words[2])
        ELSE IF n = 1 THEN Capitalize(meaningful_words[1])
        ELSE Capitalize(words[1])
             \o (IF Len(words) > 1 THEN <<" ">> \o JoinSpace(Tail(words)) ELSE << >>)

\* Lines 116-135 for a name, its words and the result of the branch of the
\* initials (<< >> when that branch does not return).
FioChoice(words, by_initials) ==
    IF words = << >> THEN <<"?">>
    ELSE IF by_initials # << >> THEN by_initials
    ELSE FioFromWords(words, FilterSeq(words, Meaningful))
FioOfStarts(name, starts) ==
    FioChoice(FioWords(name),
              IF starts = {} THEN << >> ELSE FioFromInitials(name, Least(starts)))
FioOfName(name) == FioOfStarts(name, InitialsStarts(name))

format_fio_display(fio_str) ==
    IF ~Truthy(fio_str) THEN <<"?">> ELSE FioOfName(FioName(fio_str))

-----------------------------------------------------------------------------
(* normalization.py: normalize_name_core, normalize_and_classify *)

\* The keywords of a legal form, or << >> for a label that is no key of
\* LEGAL_FORMS_KEYWORDS.
FormKeywords(form) ==
    LET hit == {f \in DOMAIN LEGAL_FORMS_KEYWORDS : LEGAL_FORMS_KEYWORDS[f].form = form}
    IN  IF hit = {} THEN << >>
        ELSE LEGAL_FORMS_KEYWORDS[CHOOSE f \in hit : TRUE].keywords

\* sorted(keywords, key=len, reverse=True): longest first, equal lengths in the
\* list's order (the sort is stable).
RECURSIVE SortByLenDesc(_)
SortByLenDesc(kws) ==
    IF kws = << >> THEN << >>
    ELSE LET k == CHOOSE i \in DOMAIN kws :
                      \A j \in DOMAIN kws :
                          Len(kws[i]) > Len(kws[j]) \/ (Len(kws[i]) = Len(kws[j]) /\ i <= j)
         IN  <<kws[k]>> \o SortByLenDesc(SubSeq(kws, 1, k - 1) \o SubSeq(kws, k + 1, Len(kws)))

\* The end of a match at i of  \bKW\b\s*  or  \s*\(\s*KW\s*\)\s*  (the pattern that
\* removes a keyword of the form IP), and with alsoLeading of  \s*\bKW\b  too (the
\* pattern for the other forms); 0 if none.
OpfEnd(s, i, kw, alsoLeading) ==
    LET j == SkipSpaces(s, i)
        k == SkipSpaces(s, SkipSpaces(s, j + 1) + Len(kw))
    IN  IF WordKeywordAt(s, i, kw) THEN SkipSpaces(s, i + Len(kw))
        ELSE IF alsoLeading /\ WordKeywordAt(s, j, kw) THEN j + Len(kw)
        ELSE IF ParenKeywordAt(s, j, kw) THEN SkipSpaces(s, k + 1)
        ELSE 0

\* pattern_for_sub.subn(' ', name) for each keyword in turn: a keyword that is
\* found replaces the name; [name, processed_opf].  skipShort leaves the keyword
\* 'ИП' out once processed_opf holds (the prefix was already removed).
RECURSIVE RemoveKeywords(_, _, _, _, _)
RemoveKeywords(name, processed, kws, alsoLeading, skipShort) ==
    IF kws = << >> THEN [name |-> name, processed_opf |-> processed]
    ELSE LET kw == Head(kws)
             M(s, i) == OpfEnd(s, i, kw, alsoLeading)
             new_name == Sub(name, M)
         IN  IF skipShort /\ kw = IP /\ processed
             THEN RemoveKeywords(name, processed, Tail(kws), alsoLeading, skipShort)
             ELSE IF new_name # name
             THEN RemoveKeywords(new_name, TRUE, Tail(kws), alsoLeading, skipShort)
             ELSE RemoveKeywords(name, processed, Tail(kws), alsoLeading, skipShort)

\* Step 2 of normalize_name_core: the name without the keywords of its form.
RemoveLegalForm(cleaned, detected_form) ==
    LET has_prefix == MatchExact(Upper(cleaned), 1, <<"#I", "#P", " ">>)
        after_prefix == IF has_prefix THEN Strip(Slice(cleaned, 4, Len(cleaned) + 1))
                        ELSE cleaned
    IN  IF FormKeywords(detected_form) = << >> THEN cleaned
        ELSE IF detected_form = IP
        THEN Strip(CollapseSpaces(
                 RemoveKeywords(after_prefix, has_prefix, FormKeywords(IP),
                                FALSE, TRUE).name))
        ELSE Strip(CollapseSpaces(
                 RemoveKeywords(cleaned, FALSE, SortByLenDesc(FormKeywords(detected_form)),
                                TRUE, FALSE).name))

\* Step 5 of normalize_name_core: the result is kept when it has more than one
\* character, is not all digits and is not all punctuation [-.,]+.
ValidCore(final_core_name) ==
    /\ Len(final_core_name) > 1
    /\ ~(\A i \in 1..Len(final_core_name) : IsDigit(final_core_name[i]))
    /\ ~(\A i \in 1..Len(final_core_name) : final_core_name[i] \in {"-", ".", ","})

\* Lines 212-226: the core name that is returned.
FinalCore(final_core_name, detected_form) ==
    IF ValidCore(final_core_name)
    THEN (IF detected_form \in {IP, FL, IP_FL} THEN final_core_name
          ELSE Upper(final_core_name))
    ELSE None

\* Steps 2 to 5 (lines 161-226) on the name cleaned of the trash patterns.
CoreOfCleaned(cleaned, detected_form) ==
    IF cleaned = << >> THEN None
    ELSE FinalCore(
             Strip(CollapseSpaces(
                 Strip(RemoveChars(RemoveLegalForm(cleaned, detected_form), QuoteChars)))),
             detected_form)

\* Step 1 (lines 145-156) on the stripped name: the trash patterns, then
\* SPACES_PATTERN.sub(' ', cleaned).strip()
Cleaned(name) == Strip(CollapseSpaces(ApplyTrashPatterns(name)))

\* Steps 1 to 5 on the stripped name.
CoreOfName(name, detected_form) ==
    IF name = << >> THEN None
    ELSE CoreOfCleaned(Cleaned(name), detected_form)

normalize_name_core(raw_name, detected_form) ==
    IF ~Truthy(raw_name) THEN None ELSE CoreOfName(Strip(raw_name), detected_form)

\* The triple with the placeholder for every name that has no core, whatever
\* its form.
ClassifiedPlaceholder(original, form, core_name) ==
    IF core_name = None \/ core_name = <<"?">>
    THEN [core_name |-> <<"?">>, form |-> form, original |-> original]
    ELSE [core_name |-> core_name, form |-> form, original |-> original]

\* Lines 238-247: the triple (core_name, form, original) as a record.
Classified(original, form, core_name) ==
    IF core_name = None \/ core_name = <<"?">>
    THEN [core_name |-> IF form \notin {FL, DRUGOE, YUL, IP, IP_FL} THEN form
                        ELSE <<"?">>,
          form |-> form, original |-> original]
    ELSE [core_name |-> core_name, form |-> form, original |-> original]
ClassifiedAs(original, form) ==
    Classified(original, form, normalize_name_core(original, form))
ClassifyOriginal(original, inn) ==
    IF original = << >>
    THEN [core_name |-> <<"?">>, form |-> FL, original |-> << >>]
    ELSE ClassifiedAs(original, detect_final_legal_form(original, inn))

normalize_and_classify(raw_name, inn) ==
    ClassifyOriginal(IF Truthy(raw_name) THEN Strip(raw_name) ELSE << >>, inn)

-----------------------------------------------------------------------------
(* The state of one run: the inputs and locals of detect_organizations and  *)
(* of process_documents (processing.py), and where run_analysis stands.     *)

VARIABLES
    pc,                         \* "pass1", "resolve", "detected", "process", "done", "exit"
    parsed_files_data,          \* the list of (header_info, documents), one per file
    file_index,                 \* the files pass 1 has gone through
    detected_orgs,              \* account -> {name, normalized, legal_form, inn}
    needing_names,              \* the accounts left to pass 2, in insertion order
    processed_file_accounts,
    names_found_global,         \* account -> Counter of the names pass 2 saw
    inns_found_global,          \* account -> set of the tax IDs pass 2 saw
    resolve_index,              \* the items of needing_names pass 2 has resolved
    all_documents,
    our_orgs_map,
    doc_index,                  \* the documents the loop of process_documents has taken
    processed,
    skipped_internal,
    skipped_no_our_org,
    skipped_mismatch,
    skipped_details_missing,
    skipped_invalid_data,
    skipped_no_cp_name,
    locals,                     \* type, our_acc, cp_raw, cp_inn, cp_acc of the loop body
    stats_log,                  \* the statistics process_documents wrote to the log
    args,                       \* the arguments of a call of one function on its own
    ret,                        \* what that call returned
    transactions,               \* the transactions a report is generated from
    tx_index,                   \* the transactions the aggregation loop has taken
    cp_aggregated_data,         \* the groups {id, details}, in insertion order
    group_index,                \* the groups that are finalized
    normalization_cache,        \* (inn, raw names) -> (name, form, best raw name)
    report_data,                \* the entries of the report, one per finalized group
    debug_mode,                 \* DEBUG_MODE as processing.py imported it
    DEBUG_NAMES_LIST,           \* processing.py, module level: one record per name
    DEBUG_TRANSACTIONS_LIST     \* processing.py, module level: one per transaction

detect_vars == <<parsed_files_data, file_index, detected_orgs, needing_names,
                 processed_file_accounts, names_found_global, inns_found_global,
                 resolve_index>>
tally_vars == <<skipped_internal, skipped_no_our_org, skipped_mismatch,
                skipped_details_missing, skipped_invalid_data, skipped_no_cp_name>>
process_vars == <<all_documents, our_orgs_map, doc_index, processed, tally_vars, locals,
                  stats_log>>
call_vars == <<args, ret>>
report_vars == <<transactions, tx_index, cp_aggregated_data, group_index,
                 normalization_cache, report_data>>
debug_vars == <<debug_mode, DEBUG_NAMES_LIST, DEBUG_TRANSACTIONS_LIST>>
vars == <<pc, detect_vars, process_vars, call_vars, report_vars, debug_vars>>

-----------------------------------------------------------------------------
(* A document of a statement: the dict parse_1c_file builds.  A key the     *)
(* file does not give is None here, so doc.get(key) is doc[key].  filepath  *)
(* is the key '_filepath', which parse_1c_file sets in every document.      *)

EmptyDoc ==
    [Platelshchik |-> None, Platelshchik1 |-> None, PlatelshchikSchet |-> None,
     PlatelshchikINN |-> None, Poluchatel |-> None, Poluchatel1 |-> None,
     PoluchatelSchet |-> None, PoluchatelINN |-> None, SchetFajla |-> None,
     Summa |-> None, Data |-> None, DataSpisano |-> None, DataPostupilo |-> None,
     Nomer |-> None, NaznacheniePlatezha |-> None,
     filepath |-> <<"d", "a", "t", "a", "/", "k", "l", ".", "t", "x", "t">>]

\* An empty dict, as the details of an organization: a record with no field.
EmptyDict == [k \in {} |-> None]

-----------------------------------------------------------------------------
(* processing.py: process_documents, the body of the loop over documents    *)

\* The literals of the counterparty key.
INN_PREFIX == <<"I", "N", "N", ":">>
NAME_ACC_PREFIX == <<"N", "A", "M", "E", "_", "A", "C", "C", ":">>
\* "БЕЗ_ИМЕНИ", "БЕЗ_СЧЕТА"
BEZ_IMENI == <<"#B", "#E", "#Z", "_", "#I", "#M", "#E", "#N", "#I">>
BEZ_SCHETA == <<"#B", "#E", "#Z", "_", "#S", "#CH", "#E", "#T", "#A">>

\* args and ret while no function is called on its own.
NoCall == "None"

\* The value of the local `type` while it is None.
NoType == "None"

\* A faulty direction: lines 189-196 without the fallback of lines 197-207.
DirectionWithoutFallback(p_acc, r_acc, f_acc, is_p_ours, is_r_ours) ==
    IF p_acc = f_acc /\ is_p_ours THEN "expense"
    ELSE IF r_acc = f_acc /\ is_r_ours THEN "income"
    ELSE NoType

\* A faulty direction: the fallback of lines 197-207 only for a document that
\* carries no file account.
DirectionOfDeclaredFile(p_acc, r_acc, f_acc, is_p_ours, is_r_ours) ==
    IF p_acc = f_acc /\ is_p_ours THEN "expense"
    ELSE IF r_acc = f_acc /\ is_r_ours THEN "income"
    ELSE IF Truthy(f_acc) THEN NoType
    ELSE IF is_p_ours /\ ~is_r_ours THEN "expense"
    ELSE IF is_r_ours /\ ~is_p_ours THEN "income"
    ELSE NoType

\* Lines 189-212: the direction of a document one of whose accounts is ours,
\* NoType when no branch decides it.
Direction(p_acc, r_acc, f_acc, is_p_ours, is_r_ours) ==
    IF p_acc = f_acc /\ is_p_ours THEN "expense"
    ELSE IF r_acc = f_acc /\ is_r_ours THEN "income"
    ELSE IF is_p_ours /\ ~is_r_ours THEN "expense"
    ELSE IF is_r_ours /\ ~is_p_ours THEN "income"
    ELSE NoType

\* Line 229: if not date_oper or amount <= 0
InvalidData(date_oper, amount) == ~date_oper.ok \/ FloatLeZero(amount)

\* A faulty key: the tax ID "0" taken for a tax ID.
CounterpartyIdOfZero(cp_inn_clean, cp_norm, cp_raw_original, cp_acc_clean) ==
    IF cp_inn_clean # << >>
    THEN INN_PREFIX \o cp_inn_clean
    ELSE NAME_ACC_PREFIX
         \o (IF Truthy(cp_norm) /\ cp_norm # <<"?">> THEN Upper(cp_norm)
             ELSE Upper(cp_raw_original))
         \o <<"|">> \o (IF cp_acc_clean # << >> THEN cp_acc_clean ELSE BEZ_SCHETA)

\* A faulty key: the raw name in place of the normalized name.
CounterpartyIdOfRawName(cp_inn_clean, cp_norm, cp_raw_original, cp_acc_clean) ==
    IF cp_inn_clean # << >> /\ cp_inn_clean # <<"0">>
    THEN INN_PREFIX \o cp_inn_clean
    ELSE NAME_ACC_PREFIX \o Upper(cp_raw_original) \o <<"|">>
         \o (IF cp_acc_clean # << >> THEN cp_acc_clean ELSE BEZ_SCHETA)

\* Lines 247-255: the counterparty key.
CounterpartyId(cp_inn_clean, cp_norm, cp_raw_original, cp_acc_clean) ==
    IF cp_inn_clean # << >> /\ cp_inn_clean # <<"0">>
    THEN INN_PREFIX \o cp_inn_clean
    ELSE LET name_part_for_id ==
                 IF Truthy(cp_norm) /\ cp_norm # <<"?">> THEN Upper(cp_norm)
                 ELSE IF Truthy(cp_raw_original) /\ cp_raw_original # <<"?">>
                 THEN Upper(cp_raw_original)
                 ELSE BEZ_IMENI
             acc_part == IF cp_acc_clean # << >> THEN cp_acc_clean ELSE BEZ_SCHETA
         IN  NAME_ACC_PREFIX \o name_part_for_id \o <<"|">> \o acc_part

\* A faulty display hint: given whatever the legal form is.
DisplayNameHintOfAnyForm(cp_norm, cp_legal_form) ==
    IF Truthy(cp_norm) /\ cp_norm # <<"?">>
    THEN format_fio_display(cp_norm)
    ELSE None

\* Lines 257-259: the display hint of a person's name.
DisplayNameHint(cp_norm, cp_legal_form) ==
    IF Truthy(cp_norm) /\ cp_norm # <<"?">> /\ cp_legal_form \in {IP, FL}
    THEN format_fio_display(cp_norm)
    ELSE None

\* x or y
Or(x, y) == IF Truthy(x) THEN x ELSE y

\* x or "?"
OrQuestion(x) == IF Truthy(x) THEN x ELSE <<"?">>

\* our_details.get(key, '?')
DetailOr(our_details, key) ==
    IF key \in DOMAIN our_details THEN our_details[key] ELSE <<"?">>

NoLocals ==
    [type |-> NoType, our_acc |-> None, cp_raw |-> None, cp_inn |-> None, cp_acc |-> None]

\* Lines 261-278: transaction_data, nac being the result of normalize_and_classify.
TransactionOf(doc, loc, our_details, date_oper, amount, cp_inn_clean, cp_acc_clean, nac) ==
    [our_org_normalized |-> DetailOr(our_details, "normalized"),
     our_org_original |-> DetailOr(our_details, "name"),
     our_account |-> loc.our_acc,
     type |-> loc.type,
     cp_id |-> CounterpartyId(cp_inn_clean, nac.core_name, nac.original, cp_acc_clean),
     cp_name_raw |-> OrQuestion(nac.original),
     cp_name_normalized |-> OrQuestion(nac.core_name),
     cp_display_name_hint |-> DisplayNameHint(nac.core_name, nac.form),
     cp_legal_form |-> nac.form,
     cp_inn |-> cp_inn_clean,
     cp_account |-> cp_acc_clean,
     date |-> FormatDate(date_oper),
     year |-> date_oper.year,
     amount |-> amount,
     doc_number |-> GetOr(doc, "Nomer", << >>),
     purpose |-> GetOr(doc, "NaznacheniePlatezha", << >>)]

\* Line 238: cp_norm, cp_legal_form, cp_raw_original = normalize_and_classify(...)
TransactionOfClean(doc, loc, our_details, date_oper, amount, cp_inn_clean, cp_acc_clean) ==
    TransactionOf(doc, loc, our_details, date_oper, amount, cp_inn_clean, cp_acc_clean,
                  normalize_and_classify(loc.cp_raw, cp_inn_clean))

\* Lines 236-278: the transaction of a document that passed every check.
TransactionData(doc, loc, our_details, date_oper, amount) ==
    TransactionOfClean(doc, loc, our_details, date_oper, amount,
                       IF Truthy(loc.cp_inn) THEN Strip(loc.cp_inn) ELSE << >>,
                       IF Truthy(loc.cp_acc) THEN Strip(loc.cp_acc) ELSE << >>)

\* The result of one run of the loop body: outcome is "processed" or the name of
\* the tally the document was counted in; assigned tells whether the run reached
\* line 186, and locals are then type, our_acc, cp_raw, cp_inn and cp_acc as the
\* run left them.
Skipped(tally, loc) ==
    [outcome |-> tally, assigned |-> TRUE, locals |-> loc, transaction_data |-> None]

\* A document skipped before line 186: the locals keep their values.
SkippedEarly(tally) ==
    [outcome |-> tally, assigned |-> FALSE, locals |-> NoLocals,
     transaction_data |-> None]

\* Lines 229-279: the check of the date and the amount, and the transaction.
Validated(doc, loc, our_details, date_oper, amount) ==
    IF InvalidData(date_oper, amount) THEN Skipped("skipped_invalid_data", loc)
    ELSE [outcome |-> "processed", assigned |-> TRUE, locals |-> loc,
          transaction_data |-> TransactionData(doc, loc, our_details, date_oper, amount)]

\* A faulty selection: the date of the document whenever the date of the
\* direction does not parse.
DateStrOfParsable(doc, type) ==
    IF parse_date(doc[IF type = "expense" THEN "DataSpisano" ELSE "DataPostupilo"]).ok
    THEN doc[IF type = "expense" THEN "DataSpisano" ELSE "DataPostupilo"]
    ELSE doc.Data

\* Lines 224-225: date_str
DateStr(doc, type) ==
    Or(doc[IF type = "expense" THEN "DataSpisano" ELSE "DataPostupilo"], doc.Data)

\* A faulty order of the checks: the date and the amount before the name.
CheckedDataFirst(doc, loc, our_details) ==
    IF DOMAIN our_details = {} THEN Skipped("skipped_details_missing", loc)
    ELSE IF InvalidData(parse_date(DateStr(doc, loc.type)), safe_float(doc.Summa))
    THEN Skipped("skipped_invalid_data", loc)
    ELSE IF loc.cp_raw = << >> \/ loc.cp_raw = <<"?">>
    THEN Skipped("skipped_no_cp_name", loc)
    ELSE Validated(doc, loc, our_details, parse_date(DateStr(doc, loc.type)),
                   safe_float(doc.Summa))

\* A faulty check of the name: the placeholder passes.
CheckedEmptyOnly(doc, loc, our_details) ==
    IF DOMAIN our_details = {} THEN Skipped("skipped_details_missing", loc)
    ELSE IF loc.cp_raw = << >> THEN Skipped("skipped_no_cp_name", loc)
    ELSE Validated(doc, loc, our_details, parse_date(DateStr(doc, loc.type)),
                   safe_float(doc.Summa))

\* Lines 214-279: the checks on our details and on the counterparty's name.
Checked(doc, loc, our_details) ==
    IF DOMAIN our_details = {} THEN Skipped("skipped_details_missing", loc)
    ELSE IF loc.cp_raw = << >> \/ loc.cp_raw = <<"?">>
    THEN Skipped("skipped_no_cp_name", loc)
    ELSE Validated(doc, loc, our_details, parse_date(DateStr(doc, loc.type)),
                   safe_float(doc.Summa))

\* Faulty locals: the account of the file taken for our account.
AssignedOfFile(doc, type) ==
    IF type = "expense"
    THEN [type |-> type, our_acc |-> doc.SchetFajla,
          cp_raw |-> get_doc_party_name(doc, "Poluchatel"),
          cp_inn |-> GetOr(doc, "PoluchatelINN", << >>),
          cp_acc |-> doc.PoluchatelSchet]
    ELSE [type |-> type, our_acc |-> doc.SchetFajla,
          cp_raw |-> get_doc_party_name(doc, "Platelshchik"),
          cp_inn |-> GetOr(doc, "PlatelshchikINN", << >>),
          cp_acc |-> doc.PlatelshchikSchet]

\* Lines 190-207: the locals an expense and an income assign.
Assigned(doc, type) ==
    IF type = "expense"
    THEN [type |-> type, our_acc |-> doc.PlatelshchikSchet,
          cp_raw |-> get_doc_party_name(doc, "Poluchatel"),
          cp_inn |-> GetOr(doc, "PoluchatelINN", << >>),
          cp_acc |-> doc.PoluchatelSchet]
    ELSE [type |-> type, our_acc |-> doc.PoluchatelSchet,
          cp_raw |-> get_doc_party_name(doc, "Platelshchik"),
          cp_inn |-> GetOr(doc, "PlatelshchikINN", << >>),
          cp_acc |-> doc.PlatelshchikSchet]

\* Lines 186-279 once the direction is decided.
Directed(doc, orgs_map, type) ==
    IF type = NoType THEN Skipped("skipped_mismatch", NoLocals)
    ELSE Checked(doc, Assigned(doc, type),
                 orgs_map[IF type = "expense" THEN doc.PlatelshchikSchet
                          ELSE doc.PoluchatelSchet])

\* A faulty loop body: without the test of lines 181-184.
LoopBodyWithoutInternal(doc, orgs_map) ==
    IF ~(doc.PlatelshchikSchet \in DOMAIN orgs_map \/ doc.PoluchatelSchet \in DOMAIN orgs_map)
    THEN SkippedEarly("skipped_no_our_org")
    ELSE Directed(doc, orgs_map,
                  Direction(doc.PlatelshchikSchet, doc.PoluchatelSchet, doc.SchetFajla,
                            doc.PlatelshchikSchet \in DOMAIN orgs_map,
                            doc.PoluchatelSchet \in DOMAIN orgs_map))

\* Lines 162-279: one run of the loop body.
LoopBody(doc, orgs_map) ==
    LET is_p_ours == doc.PlatelshchikSchet \in DOMAIN orgs_map
        is_r_ours == doc.PoluchatelSchet \in DOMAIN orgs_map
    IN  IF ~(is_p_ours \/ is_r_ours) THEN SkippedEarly("skipped_no_our_org")
        ELSE IF is_p_ours /\ is_r_ours THEN SkippedEarly("skipped_internal")
        ELSE Directed(doc, orgs_map,
                      Direction(doc.PlatelshchikSchet, doc.PoluchatelSchet,
                                doc.SchetFajla, is_p_ours, is_r_ours))

Tally(outcome, name) == IF outcome = name THEN 1 ELSE 0

\* The state after a run of the loop body with result r.
Counted(r) ==
    /\ processed' = IF r.outcome = "processed"
                    THEN Append(processed, r.transaction_data) ELSE processed
    /\ skipped_internal' = skipped_internal + Tally(r.outcome, "skipped_internal")
    /\ skipped_no_our_org' =
           skipped_no_our_org + Tally(r.outcome, "skipped_no_our_org")
    /\ skipped_mismatch' = skipped_mismatch + Tally(r.outcome, "skipped_mismatch")
    /\ skipped_details_missing' =
           skipped_details_missing + Tally(r.outcome, "skipped_details_missing")
    /\ skipped_invalid_data' =
           skipped_invalid_data + Tally(r.outcome, "skipped_invalid_data")
    /\ skipped_no_cp_name' =
           skipped_no_cp_name + Tally(r.outcome, "skipped_no_cp_name")
    /\ locals' = IF r.assigned THEN r.locals ELSE locals

\* processing.py 20-21: the debug lists as the module creates them, and
\* debug_mode with the value mode (config.py 8 sets DEBUG_MODE to False).
DebugIdle(mode) ==
    /\ debug_mode = mode
    /\ DEBUG_NAMES_LIST = << >>
    /\ DEBUG_TRANSACTIONS_LIST = << >>

\* os.path.basename: what follows the last "/" of a path.
RECURSIVE Basename(_)
Basename(path) ==
    IF \E i \in DOMAIN path : path[i] = "/" THEN Basename(Tail(path)) ELSE path

\* Lines 241-245: the record of DEBUG_NAMES_LIST.  transaction_data holds the
\* same four values: cp_raw_original or "?", cp_norm or "?", the form, the tax ID.
DebugName(transaction_data) ==
    [original |-> transaction_data.cp_name_raw,
     normalized |-> transaction_data.cp_name_normalized,
     form |-> transaction_data.cp_legal_form,
     inn |-> transaction_data.cp_inn]

\* Lines 282-287: the record of DEBUG_TRANSACTIONS_LIST,
\* {**transaction_data, '_doc_index', '_file', '_skipped'}.
DebugKeys == {"_doc_index", "_file", "_skipped"}
DebugTransaction(transaction_data, doc, index) ==
    [k \in DOMAIN transaction_data \cup DebugKeys |->
        CASE k = "_doc_index" -> index + 1
          [] k = "_file" -> Basename(doc.filepath)
          [] k = "_skipped" -> FALSE
          [] OTHER -> transaction_data[k]]

\* Lines 240 and 281: a list gets the record when DEBUG_MODE is set; the lines
\* are reached by the documents that are not skipped.
Appended(mode, outcome, list, record) ==
    IF mode /\ outcome = "processed" THEN Append(list, record) ELSE list

\* A faulty entry of process_documents: the lists are left as they are.
DebugKept(mode, list) == list

\* Lines 146-149: at the entry of process_documents a list is replaced by an
\* empty one when DEBUG_MODE is set.
DebugReset(mode, list) == IF mode THEN << >> ELSE list

\* The debug lists after a run of the loop body on doc with result r.
Recorded(r, doc) ==
    /\ DEBUG_NAMES_LIST' =
           Appended(debug_mode, r.outcome, DEBUG_NAMES_LIST,
                    IF r.outcome = "processed" THEN DebugName(r.transaction_data)
                    ELSE EmptyDict)
    /\ DEBUG_TRANSACTIONS_LIST' =
           Appended(debug_mode, r.outcome, DEBUG_TRANSACTIONS_LIST,
                    IF r.outcome = "processed"
                    THEN DebugTransaction(r.transaction_data, doc, doc_index)
                    ELSE EmptyDict)
    /\ UNCHANGED debug_mode

\* A faulty iteration: the account of the document's file is entered in the map
\* when the map does not hold it.
ProcessDocumentEntering ==
    /\ pc = "process"
    /\ doc_index < Len(all_documents)
    /\ Counted(LoopBody(all_documents[doc_index + 1], our_orgs_map))
    /\ doc_index' = doc_index + 1
    /\ our_orgs_map' =
           [a \in DOMAIN our_orgs_map \cup {all_documents[doc_index + 1].SchetFajla} |->
               IF a \in DOMAIN our_orgs_map THEN our_orgs_map[a] ELSE EmptyDict]
    /\ Recorded(LoopBody(all_documents[doc_index + 1], our_orgs_map),
                all_documents[doc_index + 1])
    /\ UNCHANGED <<pc, detect_vars, all_documents, stats_log, call_vars, report_vars>>

\* One iteration of  for doc_index, doc in enumerate(all_documents).
ProcessDocument ==
    /\ pc = "process"
    /\ doc_index < Len(all_documents)
    /\ Counted(LoopBody(all_documents[doc_index + 1], our_orgs_map))
    /\ doc_index' = doc_index + 1
    /\ Recorded(LoopBody(all_documents[doc_index + 1], our_orgs_map),
                all_documents[doc_index + 1])
    /\ UNCHANGED <<pc, detect_vars, all_documents, our_orgs_map, stats_log, call_vars, report_vars>>

\* Lines 291-301: the statistics logger.info writes once the loop is over.
\* processed_count is incremented where a transaction is appended to processed.
Statistics ==
    [processed_count |-> Len(processed),
     skipped_internal |-> skipped_internal,
     skipped_no_our_org |-> skipped_no_our_org,
     skipped_mismatch |-> skipped_mismatch,
     skipped_details_missing |-> skipped_details_missing,
     skipped_invalid_data |-> skipped_invalid_data,
     skipped_no_cp_name |-> skipped_no_cp_name,
     total_skipped |-> skipped_internal + skipped_no_our_org + skipped_mismatch
                       + skipped_details_missing + skipped_invalid_data
                       + skipped_no_cp_name,
     total_docs |-> Len(all_documents)]

\* The loop is over: process_documents logs the statistics and returns processed.
\* ret names what the caller receives.
ProcessReturn ==
    /\ pc = "process"
    /\ doc_index = Len(all_documents)
    /\ stats_log' = Append(stats_log, Statistics)
    /\ ret' = [processed |-> processed]
    /\ pc' = "done"
    /\ UNCHANGED <<detect_vars, all_documents, our_orgs_map, doc_index, processed,
                   tally_vars, locals, args, report_vars, debug_vars>>


\* Lines 136-152: a further call of process_documents in the same process, on
\* the arguments in.  The locals of the call start anew; the module's debug
\* lists are replaced when DEBUG_MODE is set.  The caller keeps what the call
\* before returned.
ProcessCallOn(in) ==
    /\ pc' = "process"
    /\ all_documents' = in.docs
    /\ our_orgs_map' = in.orgs
    /\ doc_index' = 0
    /\ processed' = << >>
    /\ skipped_internal' = 0
    /\ skipped_no_our_org' = 0
    /\ skipped_mismatch' = 0
    /\ skipped_details_missing' = 0
    /\ skipped_invalid_data' = 0
    /\ skipped_no_cp_name' = 0
    /\ locals' = NoLocals
    /\ DEBUG_NAMES_LIST' = DebugReset(debug_mode, DEBUG_NAMES_LIST)
    /\ DEBUG_TRANSACTIONS_LIST' = DebugReset(debug_mode, DEBUG_TRANSACTIONS_LIST)
    /\ UNCHANGED <<debug_mode, detect_vars, stats_log, call_vars, report_vars>>
-----------------------------------------------------------------------------
(* processing.py: detect_organizations *)

\* all_docs = [doc for _, docs in parsed_files_data if docs for doc in docs]
RECURSIVE AllDocs(_)
AllDocs(files) ==
    IF files = << >> THEN << >> ELSE Head(files).documents \o AllDocs(Tail(files))

\* next((d for d in documents if Ok(d)), None): the position of that document,
\* 0 for None.
FirstDoc(documents, Ok(_)) ==
    LET hits == {k \in DOMAIN documents : Ok(documents[k])}
    IN  IF hits = {} THEN 0 ELSE CHOOSE k \in hits : \A j \in hits : k <= j


\* Lines 53-71: the raw name and the tax ID pass 1 finds for a file's account.
Pass1Candidate(header_info, documents) ==
    LET file_account == header_info.OsnovnojSchetFajla
        IsPayer(d) == d.PlatelshchikSchet = file_account
                      /\ Truthy(get_doc_party_name(d, "Platelshchik"))
        IsReceiver(d) == d.PoluchatelSchet = file_account
                         /\ Truthy(get_doc_party_name(d, "Poluchatel"))
        payer_doc == FirstDoc(documents, IsPayer)
        receiver_doc == FirstDoc(documents, IsReceiver)
        header_inn == header_info.INN
    IN  IF payer_doc # 0
        THEN [name_raw |-> get_doc_party_name(documents[payer_doc], "Platelshchik"),
              org_inn |-> IF ~Truthy(header_inn)
                          THEN documents[payer_doc].PlatelshchikINN
                          ELSE header_inn]
        ELSE IF receiver_doc # 0
        THEN [name_raw |-> get_doc_party_name(documents[receiver_doc], "Poluchatel"),
              org_inn |-> IF ~Truthy(header_inn)
                          THEN documents[receiver_doc].PoluchatelINN
                          ELSE header_inn]
        ELSE [name_raw |-> Or(header_info.Platelshchik, header_info.Poluchatel),
              org_inn |-> header_inn]

\* Lines 79 and 82: the default identity of an account (the 'sources' of the dict,
\* a list of file paths for the log, are left out).
DefaultOrg(file_account, org_inn) ==
    [name |-> DEFAULT_ORG_NAME_PREFIX \o <<" ">> \o file_account,
     normalized |-> DEFAULT_ORG_NAME_PREFIX \o <<" ">> \o file_account,
     legal_form |-> DRUGOE,
     inn |-> Or(org_inn, << >>)]

\* Lines 76 and 113: the dict of an organization, nac being the result of
\* normalize_and_classify.
OrgOf(name_raw, inn, nac) ==
    [name |-> name_raw, normalized |-> nac.core_name, legal_form |-> nac.form,
     inn |-> Or(inn, << >>)]

\* Lines 74-76 and 111-113: the identity a raw name gives; it is kept when its
\* normalized name is Usable (if name_norm and name_norm != '?').
OrgFromName(name_raw, inn) == OrgOf(name_raw, inn, normalize_and_classify(name_raw, inn))
\* A faulty test: the placeholder taken for a name.
UsableOrPlaceholder(name_norm) == Truthy(name_norm)
Usable(name_norm) == Truthy(name_norm) /\ name_norm # <<"?">>

\* A header_info without any key: header_info.get(key) is None for each.
EmptyHeader ==
    [OsnovnojSchetFajla |-> None, INN |-> None, Platelshchik |-> None,
     Poluchatel |-> None]

\* m[k] = v of a dict
Put(m, k, v) == [x \in DOMAIN m \cup {k} |-> IF x = k THEN v ELSE m[x]]

\* A faulty pass 1: an account without a name that normalizes is dropped.
Pass1StoreNamedOnly(file_account, found, org) ==
    IF Truthy(found.name_raw) /\ Truthy(org.normalized) /\ org.normalized # <<"?">>
    THEN /\ detected_orgs' = Put(detected_orgs, file_account, org)
         /\ UNCHANGED needing_names
    ELSE UNCHANGED <<detected_orgs, needing_names>>

\* Lines 73-83: the account is detected as org, or left to pass 2.
Pass1Store(file_account, found, org) ==
    IF Truthy(found.name_raw) /\ Usable(org.normalized)
    THEN /\ detected_orgs' = Put(detected_orgs, file_account, org)
         /\ UNCHANGED needing_names
    ELSE /\ needing_names' =
                Append(needing_names,
                       [acc |-> file_account,
                        data |-> DefaultOrg(file_account, found.org_inn)])
         /\ UNCHANGED detected_orgs

\* Lines 53-83 for the name and the tax ID pass 1 found.
Pass1Found(file_account, found) ==
    Pass1Store(file_account, found, OrgFromName(found.name_raw, found.org_inn))

\* A faulty test: a file is consulted although its account was seen before.
Pass1SkipsUnseenOnly(header_info) ==
    \/ header_info = EmptyHeader
    \/ ~Truthy(header_info.OsnovnojSchetFajla)

\* Lines 42-50: the file is passed over.
Pass1Skips(header_info) ==
    \/ header_info = EmptyHeader
    \/ ~Truthy(header_info.OsnovnojSchetFajla)
    \/ header_info.OsnovnojSchetFajla \in processed_file_accounts

\* Lines 41-83 for one file.
Pass1Of(file) ==
    IF Pass1Skips(file.header_info)
    THEN UNCHANGED <<detected_orgs, needing_names, processed_file_accounts>>
    ELSE /\ processed_file_accounts' =
                processed_file_accounts \cup {file.header_info.OsnovnojSchetFajla}
         /\ Pass1Found(file.header_info.OsnovnojSchetFajla,
                       Pass1Candidate(file.header_info, file.documents))

\* One iteration of the loop of pass 1 (lines 41-83).
Pass1File ==
    /\ pc = "pass1"
    /\ file_index < Len(parsed_files_data)
    /\ Pass1Of(parsed_files_data[file_index + 1])
    /\ file_index' = file_index + 1
    /\ UNCHANGED <<pc, parsed_files_data, names_found_global, inns_found_global,
                   resolve_index, process_vars, call_vars, report_vars, debug_vars>>

NeedingAccounts(needing) == {needing[k].acc : k \in DOMAIN needing}

\* Lines 91-100: what one document adds to names_found_global and
\* inns_found_global, [names, inns].
ScanDoc(found, doc, needing) ==
    LET p_acc == doc.PlatelshchikSchet
        r_acc == doc.PoluchatelSchet
        p_name == get_doc_party_name(doc, "Platelshchik")
        r_name == get_doc_party_name(doc, "Poluchatel")
        p_inn == doc.PlatelshchikINN
        r_inn == doc.PoluchatelINN
        names1 == IF p_acc \in needing /\ Truthy(p_name)
                  THEN [found.names EXCEPT ![p_acc] = CounterAdd(@, p_name)]
                  ELSE found.names
        inns1 == IF p_acc \in needing /\ Truthy(p_inn)
                 THEN [found.inns EXCEPT ![p_acc] = @ \cup {p_inn}]
                 ELSE found.inns
        names2 == IF r_acc \in needing /\ Truthy(r_name)
                  THEN [names1 EXCEPT ![r_acc] = CounterAdd(@, r_name)]
                  ELSE names1
        inns2 == IF r_acc \in needing /\ Truthy(r_inn)
                 THEN [inns1 EXCEPT ![r_acc] = @ \cup {r_inn}]
                 ELSE inns1
    IN  [names |-> names2, inns |-> inns2]

\* for doc in all_docs (lines 90-100), from an empty Counter and an empty set for
\* every account of needing_names (the defaultdicts).
RECURSIVE ScanDocs(_, _, _)
ScanDocs(found, docs, needing) ==
    IF docs = << >> THEN found
    ELSE ScanDocs(ScanDoc(found, Head(docs), needing), Tail(docs), needing)

\* Pass 1 is over and some account needs a name: the scan of pass 2 (lines 86-100).
Pass2Scan ==
    /\ pc = "pass1"
    /\ file_index = Len(parsed_files_data)
    /\ needing_names # << >>
    /\ LET needing == NeedingAccounts(needing_names)
           found == ScanDocs([names |-> [a \in needing |-> << >>],
                              inns |-> [a \in needing |-> {}]],
                             AllDocs(parsed_files_data), needing)
       IN  /\ names_found_global' = found.names
           /\ inns_found_global' = found.inns
    /\ pc' = "resolve"
    /\ UNCHANGED <<parsed_files_data, file_index, detected_orgs, needing_names,
                   processed_file_accounts, resolve_index, process_vars, call_vars, report_vars, debug_vars>>

\* A faulty choice: any of the tax IDs seen.
InnForDetectionOfAny(acc_inns, default_data) ==
    IF acc_inns # {} THEN CHOOSE x \in acc_inns : TRUE
    ELSE default_data.inn

\* Line 108: the tax ID pass 2 uses for an account.
InnForDetection(acc_inns, default_data) ==
    IF Cardinality(acc_inns) = 1 THEN CHOOSE x \in acc_inns : TRUE
    ELSE default_data.inn

\* Lines 110-119: org when the best name is usable and normalizes, the default
\* otherwise.
ResolveWith(best_raw, default_data, org) ==
    IF Truthy(best_raw) /\ ~Contains(best_raw, DEFAULT_ORG_NAME_PREFIX)
       /\ Usable(org.normalized)
    THEN org
    ELSE default_data

\* Lines 110-119 for the best name and the tax ID.
ResolveBest(best_raw, inn_for_detection, default_data) ==
    ResolveWith(best_raw, default_data, OrgFromName(best_raw, inn_for_detection))

\* Lines 105-120: the identity pass 2 gives an account.
ResolveOrg(name_counts, acc_inns, default_data) ==
    ResolveBest(IF name_counts # << >>
                THEN get_best_name(name_counts, DEFAULT_ORG_NAME_PREFIX) ELSE None,
                InnForDetection(acc_inns, default_data), default_data)

\* One iteration of  for acc, default_data in needing_names.items()  (lines 102-120).
Pass2Resolve ==
    /\ pc = "resolve"
    /\ resolve_index < Len(needing_names)
    /\ LET acc == needing_names[resolve_index + 1].acc
           default_data == needing_names[resolve_index + 1].data
       IN  detected_orgs' =
               IF acc \in DOMAIN detected_orgs THEN detected_orgs
               ELSE Put(detected_orgs, acc,
                        ResolveOrg(names_found_global[acc], inns_found_global[acc],
                                   default_data))
    /\ resolve_index' = resolve_index + 1
    /\ UNCHANGED <<pc, parsed_files_data, file_index, needing_names,
                   processed_file_accounts, names_found_global, inns_found_global,
                   process_vars, call_vars, report_vars, debug_vars>>

\* detect_organizations returns detected_orgs: after pass 1 when no account needs
\* a name, after the last account of pass 2 otherwise.
DetectReturn ==
    /\ \/ pc = "pass1" /\ file_index = Len(parsed_files_data) /\ needing_names = << >>
       \/ pc = "resolve" /\ resolve_index = Len(needing_names)
    /\ pc' = "detected"
    /\ UNCHANGED <<detect_vars, process_vars, call_vars, report_vars, debug_vars>>

-----------------------------------------------------------------------------
(* __main__.py: run_analysis, from the detected organizations to the        *)
(* processing of the documents                                               *)

\* Lines 152-171: the run stops when no organization was detected or when the
\* files hold no document; otherwise every document goes to process_documents.
StartProcessing ==
    /\ pc = "detected"
    /\ IF DOMAIN detected_orgs = {} \/ AllDocs(parsed_files_data) = << >>
       THEN /\ pc' = "exit"
            /\ UNCHANGED <<all_documents, our_orgs_map, debug_vars>>
       ELSE /\ pc' = "process"
            /\ all_documents' = AllDocs(parsed_files_data)
            /\ our_orgs_map' = detected_orgs
            /\ DEBUG_NAMES_LIST' = DebugReset(debug_mode, DEBUG_NAMES_LIST)
            /\ DEBUG_TRANSACTIONS_LIST' =
                   DebugReset(debug_mode, DEBUG_TRANSACTIONS_LIST)
            /\ UNCHANGED debug_mode
    /\ UNCHANGED <<detect_vars, doc_index, processed, tally_vars, locals, stats_log,
                   call_vars, report_vars>>


-----------------------------------------------------------------------------
(* The sums of amounts: Python's float, an IEEE 754 double *)

\* The binary digits of the significand of a double, and of the lower of the
\* two parts the model keeps it in.
SignificandBits == 53
LowBits == SignificandBits \div 2

Pow2(n) == 2^n

\* A double that is zero or positive is modelled exactly: its significand of
\* SignificandBits binary digits is hi * 2^LowBits + lo, the first digit a 1,
\* and its value is the significand times 2^exp; kind is "num", "inf" or "nan",
\* and zero has the significand 0.  (The amounts that are summed are positive,
\* infinite or no number: line 229 of processing.py lets no other through.)
DoubleZero == [kind |-> "num", hi |-> 0, lo |-> 0, exp |-> 0]
DoubleInf == [kind |-> "inf", hi |-> 0, lo |-> 0, exp |-> 0]
DoubleNan == [kind |-> "nan", hi |-> 0, lo |-> 0, exp |-> 0]

\* The number h * 2^LowBits + l in two parts, the lower one below 2^LowBits.
Parts(h, l) == [hi |-> h + l \div Pow2(LowBits), lo |-> l % Pow2(LowBits)]

\* The number n of two parts divided by 2^d, d <= 2 * LowBits, and whether the
\* division leaves a remainder.
ShiftRight(n, d) ==
    IF d <= LowBits
    THEN [hi |-> n.hi \div Pow2(d),
          lo |-> n.lo \div Pow2(d) + (n.hi % Pow2(d)) * Pow2(LowBits - d),
          lost |-> n.lo % Pow2(d) # 0]
    ELSE [hi |-> 0,
          lo |-> n.hi \div Pow2(d - LowBits),
          lost |-> n.hi % Pow2(d - LowBits) # 0 \/ n.lo # 0]

\* Round to nearest, ties to even.  n is a number of SignificandBits + 2 binary
\* digits, sticky tells that the exact value is larger than n by less than 1,
\* and the result is the double nearest to the exact value times 2^exp.
RoundToDouble(n, sticky, exp) ==
    LET kept == ShiftRight(n, 2)
        guard == (n.lo \div 2) % 2 = 1
        rest == sticky \/ n.lo % 2 = 1
        up == guard /\ (rest \/ kept.lo % 2 = 1)
        inc == IF up THEN Parts(kept.hi, kept.lo + 1) ELSE kept
    IN  IF inc.hi = Pow2(SignificandBits - LowBits)
        THEN [kind |-> "num", hi |-> inc.hi \div 2, lo |-> 0, exp |-> exp + 3]
        ELSE [kind |-> "num", hi |-> inc.hi, lo |-> inc.lo, exp |-> exp + 2]

\* x + y of two doubles that are zero or positive: the exact sum, rounded.  The
\* sum is taken with two digits more than the significand of the larger number
\* and the digits of the smaller one below them are kept as sticky.
FloatAddOrdered(big, small) ==
    IF big.exp - small.exp >= SignificandBits + 2 THEN big
    ELSE LET d == big.exp - small.exp
             b4 == Parts(4 * big.hi, 4 * big.lo)
             s4 == Parts(4 * small.hi, 4 * small.lo)
             shifted ==
                 IF d <= LowBits
                 THEN [hi |-> s4.hi \div Pow2(d),
                       lo |-> s4.lo \div Pow2(d) + (s4.hi % Pow2(d)) * Pow2(LowBits - d),
                       lost |-> s4.lo % Pow2(d) # 0]
                 ELSE LET h == Parts(0, s4.hi \div Pow2(d - LowBits))
                      IN  [hi |-> h.hi, lo |-> h.lo,
                           lost |-> s4.hi % Pow2(d - LowBits) # 0 \/ s4.lo # 0]
             sum == Parts(b4.hi + shifted.hi, b4.lo + shifted.lo)
         IN  IF sum.hi >= Pow2(SignificandBits + 2 - LowBits)
             THEN RoundToDouble([hi |-> sum.hi \div 2,
                                 lo |-> sum.lo \div 2 + (sum.hi % 2) * Pow2(LowBits - 1)],
                                shifted.lost \/ sum.lo % 2 = 1, big.exp - 2 + 1)
             ELSE RoundToDouble([hi |-> sum.hi, lo |-> sum.lo], shifted.lost, big.exp - 2)

FloatAdd(x, y) ==
    IF x.kind = "nan" \/ y.kind = "nan" THEN DoubleNan
    ELSE IF x.kind = "inf" \/ y.kind = "inf" THEN DoubleInf
    ELSE IF x.hi = 0 THEN y
    ELSE IF y.hi = 0 THEN x
    ELSE IF x.exp >= y.exp THEN FloatAddOrdered(x, y)
    ELSE FloatAddOrdered(y, x)

\* The binary digits of (n + r / d) that make SignificandBits + 2 digits, where
\* n < 2^count is in two parts and r < d: [hi, lo, exp, sticky], exp the power of
\* 2 of the last digit.
RECURSIVE DivideBits(_, _, _, _, _)
DivideBits(n, count, r, d, k) ==
    IF count >= SignificandBits + 2
    THEN [hi |-> n.hi, lo |-> n.lo, exp |-> 0 - k, sticky |-> r # 0]
    ELSE LET bit == IF 2 * r >= d THEN 1 ELSE 0
             m == Parts(2 * n.hi, 2 * n.lo + bit)
         IN  DivideBits(m, IF m.hi = 0 /\ m.lo = 0 THEN 0 ELSE count + 1,
                        2 * r - bit * d, d, k + 1)

\* The count of the binary digits of a natural number.
RECURSIVE BitLength(_)
BitLength(n) == IF n = 0 THEN 0 ELSE 1 + BitLength(n \div 2)

\* The double that float() gives for the decimal number f of safe_float, which
\* is positive, infinite or no number: the double nearest to mant * 10^exp.
DoubleOf(f) ==
    IF f.kind = "nan" THEN DoubleNan
    ELSE IF f.kind = "inf" THEN DoubleInf
    ELSE IF f.mant = 0 THEN DoubleZero
    ELSE LET d == IF f.exp >= 0 THEN 1 ELSE Pow10(0 - f.exp)
             whole == IF f.exp >= 0 THEN f.mant * Pow10(f.exp) ELSE f.mant \div d
             q == DivideBits(Parts(0, whole), BitLength(whole),
                             IF f.exp >= 0 THEN 0 ELSE f.mant % d, d, 0)
         IN  RoundToDouble([hi |-> q.hi, lo |-> q.lo], q.sticky, q.exp)
-----------------------------------------------------------------------------
(* reporting.py: the counterparty groups of a report and their final details *)

\* No report is being generated.
ReportIdle ==
    /\ transactions = << >>
    /\ tx_index = 0
    /\ cp_aggregated_data = << >>
    /\ group_index = 0
    /\ normalization_cache = << >>
    /\ report_data = << >>

\* {'income': 0.0, 'expense': 0.0}
ZeroSums == [income |-> DoubleZero, expense |-> DoubleZero]

\* Line 160: the entry the defaultdict makes for a new year.
NewYear == [totals |-> ZeroSums, by_org |-> << >>]

\* Lines 157-161: the group the defaultdict makes for a new key, with the id
\* and cp_id of lines 172-174.
NewGroup(agg_key) ==
    [id |-> agg_key,
     details |-> [cp_id |-> agg_key, inn |-> << >>, account |-> << >>, accounts |-> {},
                  names_counter |-> << >>, raw_names |-> {}],
     totals |-> ZeroSums,
     years |-> << >>]

\* Lines 177-180: the details of a group once the transaction t is added.
UpdatedDetails(details, t) ==
    [details EXCEPT
        !.names_counter = CounterAdd(@, t.cp_name_raw),
        !.raw_names = @ \cup {t.cp_name_raw},
        !.inn = IF ~Truthy(@) /\ Truthy(t.cp_inn) THEN t.cp_inn ELSE @,
        !.accounts = IF Truthy(t.cp_account) THEN @ \cup {t.cp_account} ELSE @,
        !.account = IF ~Truthy(@) THEN t.cp_account ELSE @]

\* The position of the group of agg_key in data, 0 if there is none.
GroupAt(data, agg_key) ==
    IF \E i \in DOMAIN data : data[i].id = agg_key
    THEN CHOOSE i \in DOMAIN data : data[i].id = agg_key
    ELSE 0

\* Lines 182-183: sums with amount added on the side of the type; every type
\* that is not 'income' counts as an expense.
AddAmount(sums, type, amount) ==
    IF type = "income" THEN [sums EXCEPT !.income = FloatAdd(@, amount)]
    ELSE [sums EXCEPT !.expense = FloatAdd(@, amount)]

\* Lines 181-183: the entry of a year once amount is added to the sums of the
\* year and to those of the organization org_norm in it.
YearWith(y_data, org_norm, type, amount) ==
    [totals |-> AddAmount(y_data.totals, type, amount),
     by_org |-> Put(y_data.by_org, org_norm,
                    AddAmount(IF org_norm \in DOMAIN y_data.by_org
                              THEN y_data.by_org[org_norm] ELSE ZeroSums,
                              type, amount))]

\* Lines 176-183: the group agg once the transaction t is added to its details
\* and its amount, a float, to the sums of the group, of the year of t and of
\* our organization of t in that year.
GroupWith(agg, t) ==
    [id |-> agg.id,
     details |-> UpdatedDetails(agg.details, t),
     totals |-> AddAmount(agg.totals, t.type, t.amount),
     years |-> Put(agg.years, t.year,
                   YearWith(IF t.year \in DOMAIN agg.years THEN agg.years[t.year]
                            ELSE NewYear,
                            t.our_org_normalized, t.type, t.amount))]

\* Lines 170-183: cp_aggregated_data once the transaction t is aggregated.
Aggregated(data, t) ==
    IF GroupAt(data, t.cp_id) = 0
    THEN Append(data, GroupWith(NewGroup(t.cp_id), t))
    ELSE [data EXCEPT ![GroupAt(data, t.cp_id)] = GroupWith(@, t)]

\* One iteration of the aggregation loop of generate_counterparty_annual_report
\* (lines 170-183); after the last one the groups are finalized.
AggregateTransaction ==
    /\ pc = "aggregate"
    /\ tx_index < Len(transactions)
    /\ tx_index' = tx_index + 1
    /\ cp_aggregated_data' = Aggregated(cp_aggregated_data, transactions[tx_index + 1])
    /\ pc' = IF tx_index + 1 = Len(transactions) THEN "finalize" ELSE "aggregate"
    /\ UNCHANGED <<detect_vars, process_vars, call_vars, transactions, group_index,
                   normalization_cache, report_data, debug_vars>>

\* Line 61: details.get('raw_names') or set(details.get('names_counter', {}).keys())
RawNamesSet(details) ==
    IF details.raw_names # {} THEN details.raw_names
    ELSE {details.names_counter[i].name : i \in DOMAIN details.names_counter}

\* Line 63: cache_key = (current_inn, tuple(sorted(raw_names_set)))
CacheKey(details) == [inn |-> details.inn, names |-> RawNamesSet(details)]

\* Line 82: the first name of names_cnt.most_common() (the greatest count first,
\* names of one count in the order of their insertion) that is not empty, is
\* not "?" and does not hold DEFAULT_ORG_NAME_PREFIX; None if there is none.
FallbackRaw(names_cnt) ==
    LET valid == {i \in DOMAIN names_cnt :
                     ValidNameItem(names_cnt[i], DEFAULT_ORG_NAME_PREFIX)}
        Before(i, j) ==
            \/ names_cnt[i].count > names_cnt[j].count
            \/ names_cnt[i].count = names_cnt[j].count /\ i <= j
    IN  IF valid = {} THEN None
        ELSE names_cnt[CHOOSE i \in valid : \A j \in valid : Before(i, j)].name

\* Lines 89-90 and 92-93: the raw best name as it is, with the form ДРУГОЕ.
BestVerbatim(best_raw_name) ==
    [name |-> IF Truthy(best_raw_name) THEN best_raw_name ELSE <<"?">>,
     form |-> DRUGOE, best |-> best_raw_name]

\* Lines 85-90: the result once fallback_raw is normalized to fb.
FallbackNormalized(best_raw_name, fb) ==
    IF Truthy(fb.core_name) /\ fb.core_name # <<"?">>
    THEN [name |-> fb.core_name, form |-> fb.form, best |-> best_raw_name]
    ELSE BestVerbatim(best_raw_name)

\* Lines 83-93: the fallback with the candidate fallback_raw.
FallbackWith(best_raw_name, fallback_raw, current_inn) ==
    IF Truthy(fallback_raw) /\ fallback_raw # best_raw_name
    THEN FallbackNormalized(best_raw_name,
                            normalize_and_classify(fallback_raw, current_inn))
    ELSE BestVerbatim(best_raw_name)

\* Lines 76-96: the result once best_raw_name is normalized to nac.
FinalOfNormalized(best_raw_name, nac, names_cnt, current_inn) ==
    IF nac.core_name = None \/ nac.core_name = <<"?">>
    THEN FallbackWith(best_raw_name, FallbackRaw(names_cnt), current_inn)
    ELSE [name |-> nac.core_name, form |-> nac.form, best |-> best_raw_name]

\* Lines 76-96 for the raw best name of the group.
FinalOfBest(best_raw_name, names_cnt, current_inn) ==
    FinalOfNormalized(best_raw_name, normalize_and_classify(best_raw_name, current_inn),
                      names_cnt, current_inn)

\* Lines 71-96: (final_name_norm, final_legal_form, best_raw_name) of a group
\* that the cache does not hold.  names_cnt is details' names_counter: when it
\* is empty raw_names is empty too (line 177 fills both), and Counter(raw_names_set)
\* is the empty Counter.
Normalized(details) ==
    FinalOfBest(get_best_name(details.names_counter, DEFAULT_ORG_NAME_PREFIX),
                details.names_counter, details.inn)

\* Lines 65-99: the same from the cache if it holds the key of the group.
CachedOrNormalized(details, org_data_cache) ==
    IF CacheKey(details) \in DOMAIN org_data_cache
    THEN org_data_cache[CacheKey(details)]
    ELSE Normalized(details)

\* Lines 106-114: display_name.
DisplayName(name_to_format, final_legal_form) ==
    IF Truthy(name_to_format) /\ name_to_format # <<"?">>
    THEN (IF final_legal_form \in {IP, FL} THEN format_fio_display(name_to_format)
          ELSE name_to_format)
    ELSE None

\* Lines 103-114: details with its final name, form and display name.
WithFinal(details, final) ==
    [k \in DOMAIN details \cup {"name_normalized", "legal_form", "display_name"} |->
        IF k = "name_normalized" THEN final.name
        ELSE IF k = "legal_form" THEN final.form
        ELSE IF k = "display_name" THEN DisplayName(final.name, final.form)
        ELSE details[k]]

\* Lines 54-58: details that hold a name and a form already keep them.
AlreadyFinal(details) ==
    [name |-> details.name_normalized, form |-> details.legal_form, best |-> None]

\* _prepare_final_cp_details(cp_data, org_data_cache, report_name) once the
\* triple of the group is known: the details it returns and the cache it
\* leaves.  (cp_data of the loop always has details and an id; the strings of
\* raw names and accounts for the tooltip, lines 116-127, are not kept.)
PreparedWith(details, org_data_cache, final) ==
    [details |-> WithFinal(details, final),
     cache |-> IF {"name_normalized", "legal_form"} \subseteq DOMAIN details
               THEN org_data_cache
               ELSE Put(org_data_cache, CacheKey(details), final)]

_prepare_final_cp_details(cp_data, org_data_cache) ==
    PreparedWith(cp_data.details, org_data_cache,
                 IF {"name_normalized", "legal_form"} \subseteq DOMAIN cp_data.details
                 THEN AlreadyFinal(cp_data.details)
                 ELSE CachedOrNormalized(cp_data.details, org_data_cache))

\* Lines 196-205: the entry of a group in the report (without its sums).
CpEntry(agg_key, final_details) ==
    [id |-> agg_key,
     name_normalized |-> final_details.name_normalized,
     display_name |-> final_details.display_name,
     legal_form |-> final_details.legal_form,
     inn |-> final_details.inn]

\* The state once a group is finalized with the result prepared.
FinalizedWith(prepared) ==
    /\ normalization_cache' = prepared.cache
    /\ cp_aggregated_data' =
           [cp_aggregated_data EXCEPT ![group_index + 1].details = prepared.details]
    /\ report_data' = Append(report_data,
                             CpEntry(cp_aggregated_data[group_index + 1].id,
                                     prepared.details))

\* One iteration of the loop of lines 191-205: the next group is finalized with
\* the cache of the report.
FinalizeGroup ==
    /\ pc = "finalize"
    /\ group_index < Len(cp_aggregated_data)
    /\ FinalizedWith(_prepare_final_cp_details(cp_aggregated_data[group_index + 1],
                                               normalization_cache))
    /\ group_index' = group_index + 1
    /\ pc' = IF group_index + 1 = Len(cp_aggregated_data) THEN "finalized" ELSE "finalize"
    /\ UNCHANGED <<detect_vars, process_vars, call_vars, transactions, tx_index, debug_vars>>

-----------------------------------------------------------------------------
(* The inputs the runs are drawn from                                        *)

\* The documents of a list and the documents of a file are at most this many.
MaxDocs == 2
MaxFileDocs == 2

\* The sequences of at most n members of S.
SeqsUpTo(S, n) == UNION {[1..k -> S] : k \in 0..n}

\* Accounts: two of ours and two of counterparties.
ACC_A1 == <<"4", "0", "7", "0", "2">>
ACC_A2 == <<"4", "0", "7", "0", "3">>
ACC_B1 == <<"4", "0", "8", "1", "7">>
ACC_B2 == <<"4", "0", "8", "1", "8">>

\* Names: "ООО РОМАШКА", "АО Василёк", "ООО Лютик", "Лютик ООО", "Лютик",
\* "Иванов Иван", "Иванов И.И.", "ИП Петров Пётр", and two names that do not
\* normalize.
OOO_ROMASHKA == <<"#O", "#O", "#O", " ", "#R", "#O", "#M", "#A", "#SH", "#K", "#A">>
AO_VASILEK == <<"#A", "#O", " ", "#V", "#a", "#s", "#i", "#l", "#yo", "#k">>
OOO_LYUTIK == <<"#O", "#O", "#O", " ", "#L", "#yu", "#t", "#i", "#k">>
LYUTIK_OOO == <<"#L", "#yu", "#t", "#i", "#k", " ", "#O", "#O", "#O">>
LYUTIK == <<"#L", "#yu", "#t", "#i", "#k">>
IVANOV_IVAN == <<"#I", "#v", "#a", "#n", "#o", "#v", " ", "#I", "#v", "#a", "#n">>
IVANOV_II == <<"#I", "#v", "#a", "#n", "#o", "#v", " ", "#I", ".", "#I", ".">>
IP_PETROV == <<"#I", "#P", " ", "#P", "#e", "#t", "#r", "#o", "#v", " ", "#P", "#yo", "#t", "#r">>
NAME_1 == <<"1">>
NAME_2 == <<"2">>

\* Tax IDs of ten and of twelve digits.
INN_ROMASHKA == <<"7", "7", "0", "1", "2", "3", "4", "5", "6", "7">>
INN_LYUTIK == <<"7", "7", "0", "7", "6", "5", "4", "3", "2", "1">>
INN_IVANOV == <<"7", "7", "0", "1", "2", "3", "4", "5", "6", "7", "8", "9">>

DATE_1 == <<"1", "5", ".", "0", "3", ".", "2", "0", "2", "4">>

\* A payment document as parse_1c_file leaves it: the parties, the account of the
\* file it came from, the amount and the date.
Payment(p_name, p_acc, p_inn, r_name, r_acc, r_inn, f_acc, amount, date) ==
    [EmptyDoc EXCEPT !.Platelshchik = p_name, !.PlatelshchikSchet = p_acc,
                     !.PlatelshchikINN = p_inn, !.Poluchatel = r_name,
                     !.PoluchatelSchet = r_acc, !.PoluchatelINN = r_inn,
                     !.SchetFajla = f_acc, !.Summa = amount, !.Data = date]

\* An expense and an income of account A1 in the file of A1.
ExpenseDoc ==
    Payment(OOO_ROMASHKA, ACC_A1, INN_ROMASHKA, IVANOV_IVAN, ACC_B1, None, ACC_A1,
            <<"1", "5", "0", "0", ",", "5", "0">>, DATE_1)
IncomeDoc ==
    Payment(OOO_LYUTIK, ACC_B1, INN_LYUTIK, OOO_ROMASHKA, ACC_A1, INN_ROMASHKA, ACC_A1,
            <<"1", "0", "0">>, DATE_1)

\* Organization maps: both accounts ours, one account ours, and a map whose
\* entry is an empty dict.
OrgRomashka ==
    [name |-> OOO_ROMASHKA, normalized |-> <<"#R", "#O", "#M", "#A", "#SH", "#K", "#A">>, legal_form |-> <<"#O", "#O", "#O">>,
     inn |-> INN_ROMASHKA]
MapBoth == (ACC_A1 :> OrgRomashka) @@ (ACC_A2 :> DefaultOrg(ACC_A2, << >>))
MapOne == (ACC_A1 :> OrgRomashka)
MapNoDetails == (ACC_A1 :> EmptyDict)

\* Documents that differ in whose the accounts are and in the file they came from.
DirectionDocs ==
    {ExpenseDoc, IncomeDoc,
     \* A1 pays A2
     Payment(OOO_ROMASHKA, ACC_A1, INN_ROMASHKA, AO_VASILEK, ACC_A2, None, ACC_A1,
             <<"1", "0">>, DATE_1),
     \* neither account is ours
     Payment(OOO_LYUTIK, ACC_B1, INN_LYUTIK, IVANOV_IVAN, ACC_B2, None, ACC_A1,
             <<"2", "0">>, DATE_1),
     \* A2 pays B1, A2 receives from B1 and A1 pays B1: none in the file of the
     \* account that is ours
     Payment(AO_VASILEK, ACC_A2, None, IVANOV_IVAN, ACC_B1, INN_IVANOV, ACC_A1,
             <<"3", "0">>, DATE_1),
     Payment(OOO_LYUTIK, ACC_B1, INN_LYUTIK, AO_VASILEK, ACC_A2, None, ACC_A1,
             <<"4", "0">>, DATE_1),
     Payment(OOO_ROMASHKA, ACC_A1, INN_ROMASHKA, IVANOV_IVAN, ACC_B1, None, ACC_B1,
             <<"5", "0">>, DATE_1),
     \* the expense of A1 in the file of the receiver
     [ExpenseDoc EXCEPT !.SchetFajla = ACC_B1]}

\* Expenses of A1 that differ in the amount and in the dates.
ValidityDocs ==
    {[ExpenseDoc EXCEPT !.Summa = a] :
        a \in { <<"1", "5", "0", "0", ",", "5", "0">>, <<"0">>, <<"-", "5">>, <<"n", "a", "n">>, <<"a", "b", "c">>, None, <<"1", " ", "0", "0", "0", ".", "5">>, <<"i", "n", "f">> }}
    \cup {[ExpenseDoc EXCEPT !.Data = d] : d \in { <<"3", "1", ".", "0", "2", ".", "2", "0", "2", "4">>, None, <<"2", "0", "2", "4", "-", "0", "3", "-", "1", "5">> }}
    \cup {[ExpenseDoc EXCEPT !.DataSpisano = <<"1", "6", ".", "0", "3", ".", "2", "0", "2", "4">>],
          [IncomeDoc EXCEPT !.DataPostupilo = <<"1", "7", ".", "0", "3", ".", "2", "0", "2", "4">>, !.DataSpisano = <<"x">>],
          [ExpenseDoc EXCEPT !.DataSpisano = <<"x">>],
          [IncomeDoc EXCEPT !.DataPostupilo = << >>, !.DataSpisano = <<"1", "6", ".", "0", "3", ".", "2", "0", "2", "4">>],
          [ExpenseDoc EXCEPT !.DataSpisano = <<"1", "6", ".", "0", "3", ".", "2", "0", "2", "4">>, !.Data = None]}

\* Incomes of A1 that differ in the payer's name, tax ID and account.
PayerDoc(p_name, p_inn, p_acc) ==
    [IncomeDoc EXCEPT !.Platelshchik = p_name, !.PlatelshchikINN = p_inn,
                      !.PlatelshchikSchet = p_acc]
IdentityDocs ==
    {PayerDoc(OOO_LYUTIK, INN_LYUTIK, ACC_B1),
     PayerDoc(LYUTIK_OOO, INN_LYUTIK, ACC_B2),
     PayerDoc(OOO_LYUTIK, <<" ", "7", "7", "0", "7", "6", "5", "4", "3", "2", "1", " ">>, ACC_B1),
     PayerDoc(OOO_LYUTIK, None, ACC_B1),
     PayerDoc(LYUTIK_OOO, None, ACC_B1),
     PayerDoc(LYUTIK, <<"0">>, ACC_B1),
     PayerDoc(NAME_1, None, ACC_B1),
     PayerDoc(NAME_2, << >>, ACC_B1),
     PayerDoc(IVANOV_IVAN, None, None),
     [PayerDoc(None, None, <<" ", "4", "0", "8", "1", "7", " ">>) EXCEPT !.Platelshchik1 = IP_PETROV],
     PayerDoc(<<"?">>, INN_LYUTIK, ACC_B1),
     PayerDoc(None, INN_LYUTIK, ACC_B1)}

\* Expenses of A1 that fail several checks at once: the receiver's name is given,
\* missing, the placeholder or blank, the amount is positive or zero, the date
\* is valid or not; and expenses whose receiver is named by the field
\* Получатель1, the field Получатель being absent, empty or blank.
SeveralFaultsDocs ==
    {[ExpenseDoc EXCEPT !.Poluchatel = n, !.Summa = a, !.Data = d] :
        n \in {IVANOV_IVAN, None, <<"?">>, <<" ">>, <<" ", "?", " ">>},
        a \in { <<"1", "0", "0">>, <<"0">> },
        d \in {DATE_1, <<"x">>}}
    \cup {[ExpenseDoc EXCEPT !.Poluchatel = n, !.Poluchatel1 = OOO_LYUTIK] :
            n \in {None, << >>, <<" ">>}}

\* The inputs of process_documents: an organization map and a list of documents.
ProcessInputs ==
    {[orgs |-> m, docs |-> d] :
        m \in {MapBoth, MapOne}, d \in SeqsUpTo(DirectionDocs, MaxDocs)}
    \cup {[orgs |-> MapOne, docs |-> d] : d \in SeqsUpTo(ValidityDocs, MaxDocs)}
    \cup {[orgs |-> MapOne, docs |-> d] : d \in SeqsUpTo(IdentityDocs, MaxDocs)}
    \cup {[orgs |-> MapNoDetails, docs |-> d] :
            d \in SeqsUpTo({ExpenseDoc, IncomeDoc}, MaxDocs)}
    \cup {[orgs |-> m, docs |-> <<d>>] :
            m \in {MapOne, MapNoDetails}, d \in SeveralFaultsDocs}

\* The calls of process_documents in one process, and their inputs: documents
\* that give a transaction, of two files, and one that is skipped.
MaxCalls == 2
DebugDocs ==
    {<< >>, <<ExpenseDoc>>,
     <<[IncomeDoc EXCEPT !.filepath = <<"i", "n", "/", "b", "/", "s", "t", ".", "t", "x", "t">>]>>,
     <<IncomeDoc, [ExpenseDoc EXCEPT !.DataSpisano = <<"x">>]>>,
     <<[ExpenseDoc EXCEPT !.DataSpisano = <<"x">>], ExpenseDoc, IncomeDoc>>}
DebugInputs == {[orgs |-> MapOne, docs |-> d] : d \in DebugDocs}

\* The header_info of a parsed file.
Header(acc, inn, payer, receiver) ==
    [OsnovnojSchetFajla |-> acc, INN |-> inn, Platelshchik |-> payer,
     Poluchatel |-> receiver]

\* A parsed file: parse_1c_file stamps every document with the main account of
\* its file.
File(header, docs) ==
    [header_info |-> header,
     documents |-> [i \in DOMAIN docs |->
                       [docs[i] EXCEPT !.SchetFajla = header.OsnovnojSchetFajla]]]

\* A document of a file, before the stamp.
FileDoc(p_name, p_acc, p_inn, r_name, r_acc, r_inn) ==
    Payment(p_name, p_acc, p_inn, r_name, r_acc, r_inn, None, <<"1", "0">>, DATE_1)

\* Documents of the file of A1: A1 pays under two names, receives, pays under a
\* name that does not normalize, pays without a name, is no party, pays A2.
DocLyutikPays == FileDoc(OOO_LYUTIK, ACC_A1, INN_LYUTIK, IVANOV_IVAN, ACC_B1, None)
DocRomashkaPays ==
    FileDoc(OOO_ROMASHKA, ACC_A1, INN_ROMASHKA, IVANOV_IVAN, ACC_B1, INN_IVANOV)
DocVasilekReceives == FileDoc(IVANOV_IVAN, ACC_B1, None, AO_VASILEK, ACC_A1, INN_ROMASHKA)
DocOnePays == FileDoc(NAME_1, ACC_A1, INN_LYUTIK, IVANOV_IVAN, ACC_B1, None)
DocNamelessPays == FileDoc(None, ACC_A1, INN_LYUTIK, IVANOV_IVAN, ACC_B1, None)
DocOfOthers == FileDoc(OOO_LYUTIK, ACC_B1, INN_LYUTIK, IVANOV_IVAN, ACC_B2, None)
DocPaysA2 == FileDoc(OOO_ROMASHKA, ACC_A1, None, AO_VASILEK, ACC_A2, INN_LYUTIK)
\* A1 pays A2 under another name and tax ID of A2.
DocPaysLyutikA2 ==
    FileDoc(OOO_ROMASHKA, ACC_A1, None, OOO_LYUTIK, ACC_A2, INN_ROMASHKA)
DetectDocs ==
    {DocLyutikPays, DocRomashkaPays, DocVasilekReceives, DocOnePays, DocNamelessPays,
     DocOfOthers, DocPaysA2}

\* Headers of a file of A1: with a tax ID and a payer, bare, with a receiver, with
\* a payer that does not normalize; a header without an account; no header.
HeaderFull == Header(ACC_A1, INN_ROMASHKA, OOO_ROMASHKA, None)
HeaderBare == Header(ACC_A1, None, None, None)
HeaderReceiver == Header(ACC_A1, INN_IVANOV, None, AO_VASILEK)
HeaderOne == Header(ACC_A1, None, NAME_1, None)
HeaderNoAccount == Header(None, INN_ROMASHKA, OOO_ROMASHKA, None)
DetectHeaders ==
    {HeaderFull, HeaderBare, HeaderReceiver, HeaderOne, HeaderNoAccount, EmptyHeader}

\* Headers of a second file: of A2, bare or with a tax ID, and of A1 again.
SecondHeaders ==
    {Header(ACC_A2, None, None, None), Header(ACC_A2, INN_IVANOV, None, None),
     HeaderFull, HeaderReceiver}

\* The inputs of detect_organizations: one file with any header and at most
\* MaxFileDocs documents, or a file of A1 followed by a second file.
DetectInputs ==
    {<<File(h, d)>> : h \in DetectHeaders, d \in SeqsUpTo(DetectDocs, MaxFileDocs)}
    \cup {<<File(h1, d1), File(h2, d2)>> :
            h1 \in {HeaderFull, HeaderBare}, h2 \in SecondHeaders,
            d1 \in {<< >>, <<DocPaysA2>>, <<DocOnePays>>,
                    <<DocPaysLyutikA2, DocPaysA2>>},
            d2 \in {<< >>, <<DocPaysA2>>, <<DocLyutikPays, DocPaysA2>>}}

\* The scenario of one file of a company that pays a person.
ACC_COMPANY == <<"4", "0", "7", "0", "2", "8", "1", "0", "0", "0", "0", "0", "0", "0", "0", "1", "2", "3", "4", "5">>
ACC_PERSON == <<"4", "0", "8", "1", "7", "8", "1", "0", "0", "0", "0", "0", "0", "0", "0", "9", "8", "7", "6", "5">>
ScenarioDoc(r_name, r_inn, amount, date) ==
    Payment(None, ACC_COMPANY, None, r_name, ACC_PERSON, r_inn, None, amount, date)
ScenarioFile(payer, docs) == File(Header(ACC_COMPANY, None, payer, None), docs)
ScenarioDocs ==
    {ScenarioDoc(n, i, a, DATE_1) :
        n \in {IVANOV_II, IVANOV_IVAN, IP_PETROV, OOO_LYUTIK},
        i \in {None, INN_IVANOV},
        a \in { <<"1", "5", "0", "0", ",", "5", "0">>, <<"0">> }}

\* The inputs of a whole run: the files parse_1c_file gave, each with a main
\* account.
PipeInputs ==
    {<<ScenarioFile(p, d)>> :
        p \in {OOO_ROMASHKA, NAME_1, None}, d \in SeqsUpTo(ScenarioDocs, 1)}
    \cup {<<File(h1, d1), File(h2, d2)>> :
            h1 \in {HeaderFull, HeaderBare}, h2 \in SecondHeaders,
            d1 \in {<< >>, <<DocPaysA2>>, <<DocOnePays>>},
            d2 \in {<< >>, <<DocPaysA2>>}}
-----------------------------------------------------------------------------
(* The functions called on their own: pc names the function that is about   *)
(* to run on args, and is "returned" once ret holds what it returned.       *)

\* The counts of a name of a Counter and its names are at most this many.
MaxCount == 2
MaxNames == 3

\* Names a Counter may hold: the empty string, the placeholder, a default name of
\* an account, a name that holds one, and names of five, nine and eleven letters.
DEFAULT_NAME_A1 == <<"#O", "#r", "#g", "#a", "#n", "#i", "#z", "#a", "#c", "#i", "#ya", " ", "#s", "#ch", "#e", "#t", "#a", " ", "4", "0", "7", "0", "2">>
OOO_DEFAULT == <<"#O", "#O", "#O", " ", "#O", "#r", "#g", "#a", "#n", "#i", "#z", "#a", "#c", "#i", "#ya", " ", "#s", "#ch", "#e", "#t", "#a">>
CounterNames ==
    {<< >>, <<"?">>, DEFAULT_NAME_A1, OOO_DEFAULT, LYUTIK, OOO_LYUTIK, LYUTIK_OOO,
     IVANOV_IVAN}

\* The Counters of at most MaxNames names, each counted at most MaxCount times.
Counters ==
    {c \in SeqsUpTo([name : CounterNames, count : 1..MaxCount], MaxNames) :
        \A i, j \in DOMAIN c : i # j => c[i].name # c[j].name}

\* get_best_name(names_counter, DEFAULT_ORG_NAME_PREFIX)
BestNameCall ==
    /\ pc = "get_best_name"
    /\ ret' = get_best_name(args.names_counter, DEFAULT_ORG_NAME_PREFIX)
    /\ pc' = "returned"
    /\ UNCHANGED <<args, detect_vars, process_vars, report_vars, debug_vars>>


\* A normalized name is normalized again at most this many times.
MaxRounds == 2

\* Raw names given to the functions of normalization.py: no name, empty and
\* blank names, the placeholder, a digit, names of nothing but a keyword, names
\* with a keyword in front, behind, in quotes and in parentheses, names with two
\* keywords, names of persons in Cyrillic and Latin letters, and names with
\* requisites behind them.
OOO == <<"#O", "#O", "#O">>
OOO_1 == <<"#O", "#O", "#O", " ", "1">>
OOO_QUOTED == <<"#O", "#O", "#O", " ", "\"", "#R", "#o", "#m", "#a", "#sh", "#k", "#a", "\"">>
PETROV_PP == <<"#P", "#e", "#t", "#r", "#o", "#v", " ", "#P", ".", "#P", ".">>
PETROV_IP == <<"#P", "#e", "#t", "#r", "#o", "#v", " ", "#I", "#P">>
PAREN_IP_PETROV == <<"(", "#I", "#P", ")", " ", "#P", "#e", "#t", "#r", "#o", "#v">>
IP_AO_VASILEK == <<"#I", "#P", " ", "#A", "#O", " ", "#V", "#a", "#s", "#i", "#l", "#yo", "#k">>
FILIAL_OOO == <<"#F", "#I", "#L", "#I", "#A", "#L", " ", "#O", "#O", "#O", " ", "\"", "#R", "#O", "#M", "#A", "#SH", "#K", "#A", "\"">>
PAREN_AO_OOO == <<"(", "#A", "#O", ")", " ", "#O", "#O", "#O", " ", "#R", "#O", "#M", "#A", "#SH", "#K", "#A">>
NP_AO_LYUTIK == <<"#N", "#P", " ", "#A", "#O", " ", "#L", "#yu", "#t", "#i", "#k">>
OOO_FOND == <<"#O", "#O", "#O", " ", "#F", "#O", "#N", "#D", " ", "#R", "#O", "#M", "#A", "#SH", "#K", "#A">>
FOND_LIMITED == <<"#F", "#O", "#N", "#D", " ", "L", "I", "M", "I", "T", "E", "D">>
JOHN_SMITH == <<"J", "o", "h", "n", " ", "S", "m", "i", "t", "h">>
IVANOV_LOWER == <<"#I", "#v", "#a", "#n", "#o", "#v", " ", "#i", "#v", "#a", "#n">>
ACCOUNT_ONLY == <<"#R", "/", "#S", "#CH", " ", "4", "0", "7", "0", "2", "8", "1", "0">>
OOO_WITH_INN == <<"#O", "#O", "#O", " ", "#L", "#yu", "#t", "#i", "#k", " ", "#I", "#N", "#N", " ", "7", "7", "0", "7", "6", "5", "4", "3", "2", "1">>
ID_TWICE == <<"#L", "#yu", "#t", "#i", "#k", " ", "I", "D", " ", "I", "D", " ", "1", " ", "2">>
INN_AFTER_NOTE == <<"#L", "#yu", "#t", "#i", "#k", " ", "#I", "#N", "#N", " ", "/", "/", "a", "/", "/", " ", "7", "7", "0", "7", "6", "5", "4", "3", "2", "1">>
RawNames ==
    {ID_TWICE, INN_AFTER_NOTE, None, << >>, <<" ", " ">>, <<"?">>, NAME_1, IP, OOO, OOO_1, OOO_ROMASHKA,
     OOO_QUOTED, AO_VASILEK, LYUTIK_OOO, LYUTIK, IVANOV_IVAN, IVANOV_II, PETROV_PP,
     IP_PETROV, PETROV_IP, PAREN_IP_PETROV, IP_AO_VASILEK, FILIAL_OOO, PAREN_AO_OOO,
     NP_AO_LYUTIK, OOO_FOND, FOND_LIMITED, JOHN_SMITH, IVANOV_LOWER, ACCOUNT_ONLY,
     OOO_WITH_INN}

\* Tax IDs given with them: none, empty, of ten and of twelve digits, of ten
\* digits between blanks, and of three digits.
INN_PADDED == <<" ", "7", "7", "0", "1", "2", "3", "4", "5", "6", "7", " ">>
INN_SHORT == <<"1", "2", "3">>
RawInns == {None, << >>, INN_ROMASHKA, INN_IVANOV, INN_PADDED, INN_SHORT}

\* detect_final_legal_form(raw_name, inn)
DetectFormCall ==
    /\ pc = "detect_final_legal_form"
    /\ ret' = detect_final_legal_form(args.raw_name, args.inn)
    /\ pc' = "returned"
    /\ UNCHANGED <<args, detect_vars, process_vars, report_vars, debug_vars>>

\* normalize_and_classify(raw_name, inn)
NormalizeCall ==
    /\ pc = "normalize_and_classify"
    /\ ret' = normalize_and_classify(args.raw_name, args.inn)
    /\ pc' = "returned"
    /\ UNCHANGED <<args, detect_vars, process_vars, report_vars, debug_vars>>

\* normalize_and_classify(core_name) on the core name that the call before
\* returned: the second pass of spec.md, with no tax ID.
RenormalizeCall ==
    /\ pc = "returned"
    /\ args.fn = "normalize_and_classify"
    /\ args.round < MaxRounds
    /\ args' = [fn |-> args.fn, raw_name |-> ret.core_name, inn |-> None,
                round |-> args.round + 1, first_form |-> ret.form]
    /\ ret' = normalize_and_classify(ret.core_name, None)
    /\ UNCHANGED <<pc, detect_vars, process_vars, report_vars, debug_vars>>

\* normalize_name_core(raw_name, detected_form) with the form that
\* detect_final_legal_form finds, up to the end of step 1 (lines 139-160): the
\* call returns None for a name with nothing in it or nothing left of it, and
\* goes on to step 2 with cleaned otherwise.
NoiseStage ==
    /\ pc = "normalize_name_core"
    /\ LET name == IF Truthy(args.raw_name) THEN Strip(args.raw_name) ELSE << >>
           cleaned == IF name = << >> THEN << >> ELSE Cleaned(name)
       IN  /\ ret' = [cleaned |-> cleaned, core_name |-> None]
           /\ pc' = IF cleaned = << >> THEN "returned" ELSE "legal_form"
    /\ UNCHANGED <<args, detect_vars, process_vars, report_vars, debug_vars>>

\* Steps 2 to 5 of normalize_name_core (lines 161-226) on cleaned.
FormStage ==
    /\ pc = "legal_form"
    /\ ret' = [cleaned |-> ret.cleaned,
               core_name |-> CoreOfCleaned(ret.cleaned,
                                 detect_final_legal_form(args.raw_name, args.inn))]
    /\ pc' = "returned"
    /\ UNCHANGED <<args, detect_vars, process_vars, report_vars, debug_vars>>

-----------------------------------------------------------------------------
(* The transactions of a report *)

\* A report is generated from at most this many transactions.
MaxTx == 3

\* What the aggregation reads of the transaction that process_documents emits
\* (processing.py 262-272) for a counterparty of the raw name, tax ID and
\* account given.
\* It is an income of 100 of our organization РОМАШКА in 2024; the amount is
\* the float that safe_float returned, as the double it is.
Tx(cp_raw, cp_inn_clean, cp_acc_clean, nac) ==
    [cp_id |-> CounterpartyId(cp_inn_clean, nac.core_name, nac.original, cp_acc_clean),
     cp_name_raw |-> OrQuestion(nac.original),
     cp_inn |-> cp_inn_clean,
     cp_account |-> cp_acc_clean,
     our_org_normalized |-> <<"#R", "#O", "#M", "#A", "#SH", "#K", "#A">>,
     type |-> "income",
     year |-> 2024,
     amount |-> DoubleOf(safe_float(<<"1", "0", "0">>))]

\* The counterparties of the transactions: a name that does not normalize, a
\* name of nothing but a keyword, three spellings of one company, and a name
\* that normalizes to the placeholder as an entrepreneur's; each with a tax ID,
\* or without one on either of two accounts.
ReportNames == {NAME_1, OOO, OOO_LYUTIK, LYUTIK, IP_AO_VASILEK}
ReportTxs ==
    {Tx(n, INN_LYUTIK, ACC_B1, normalize_and_classify(n, INN_LYUTIK)) : n \in ReportNames}
    \cup {Tx(n, << >>, a, normalize_and_classify(n, << >>)) :
             n \in ReportNames, a \in {ACC_B1, ACC_B2}}

\* The transactions of the groups that share a key of the cache: no tax ID, the
\* raw names 'ООО Лютик' and 'Лютик', the accounts B1 and B2.
MaxCacheTx == 5
CacheTxs ==
    {Tx(n, << >>, a, normalize_and_classify(n, << >>)) :
        n \in {OOO_LYUTIK, LYUTIK}, a \in {ACC_B1, ACC_B2}}

\* The transactions whose amounts are summed: those of one counterparty in
\* either direction, in 2023 for either of our two organizations or in 2024,
\* of 0.10, 0.20 or 2.20, and one income of another counterparty.
MaxSumTx == 3
SumTx(tx, type, year, org, amount) ==
    [tx EXCEPT !.type = type, !.year = year, !.our_org_normalized = org,
               !.amount = DoubleOf(safe_float(amount))]
SumTxs ==
    {SumTx(Tx(OOO_LYUTIK, INN_LYUTIK, ACC_B1, normalize_and_classify(OOO_LYUTIK, INN_LYUTIK)),
           type, yo[1], yo[2], amount) :
        type \in {"income", "expense"},
        yo \in {<<2023, <<"#R", "#O", "#M", "#A", "#SH", "#K", "#A">>>>, <<2023, <<"#V", "#A", "#S", "#I", "#L", "#YO", "#K">>>>, <<2024, <<"#R", "#O", "#M", "#A", "#SH", "#K", "#A">>>>},
        amount \in { <<"0", ".", "1", "0">>, <<"0", ",", "2", "0">>, <<"2", ".", "2", "0">> }}
    \cup {SumTx(Tx(IVANOV_IVAN, << >>, ACC_B2, normalize_and_classify(IVANOV_IVAN, << >>)),
                "income", 2023, <<"#R", "#O", "#M", "#A", "#SH", "#K", "#A">>, <<"0", ".", "1", "0">>)}

\* process_documents is called again once a call has returned.
ProcessCall ==
    /\ pc = "done"
    /\ Len(stats_log) < MaxCalls
    /\ \E in \in DebugInputs : ProcessCallOn(in)

\* ---------------------------------------------------------------------------
\* __main__.py: the start of the program.

\* The names reporting.py defines at its top level (lines 38, 141 and 275).
ReportingNames ==
    {"_prepare_final_cp_details", "generate_counterparty_annual_report",
     "generate_org_comparison_report"}

\* The names line 18 of __main__.py imports from src.reporting.
ImportedFromReporting ==
    <<"generate_counterparty_annual_report_v5", "generate_org_comparison_report_v5">>

\* A file of the data directory: parse_1c_file gives its header and documents,
\* or fails on it.
DiskFile(ok, file) == [ok |-> ok, file |-> file]

\* The data directories of the runs: the files of PipeInputs, each one parsable
\* or not.
RECURSIVE DiskFiles(_)
DiskFiles(files) ==
    IF files = << >> THEN {<< >>}
    ELSE {<<DiskFile(ok, Head(files))>> \o rest :
             ok \in BOOLEAN, rest \in DiskFiles(Tail(files))}
RunInputs == UNION {DiskFiles(files) : files \in PipeInputs}

\* python -m src: the imports at the top of __main__.py run before main() and
\* run_analysis. The import of line 18 raises ImportError when reporting.py
\* lacks one of its names; the interpreter then ends with exit status 1 and
\* nothing of run_analysis has run.
ImportMain ==
    /\ pc = "__main__"
    /\ \E k \in DOMAIN ImportedFromReporting : ImportedFromReporting[k] \notin ReportingNames
    /\ pc' = "exit"
    /\ ret' = [exit_code |-> 1, raised |-> "ImportError", parsed |-> 0, invoked |-> << >>]
    /\ UNCHANGED <<args, detect_vars, process_vars, report_vars, debug_vars>>
-----------------------------------------------------------------------------
(* Properties of process_documents                                           *)

\* The document the loop of process_documents takes next, and the one it took
\* last.
NextDoc == all_documents[doc_index + 1]
LastDoc == all_documents[doc_index]
DocTaken == doc_index' = doc_index + 1

PayerIsOurs(doc) == doc.PlatelshchikSchet \in DOMAIN our_orgs_map
ReceiverIsOurs(doc) == doc.PoluchatelSchet \in DOMAIN our_orgs_map
OneIsOurs(doc) == PayerIsOurs(doc) # ReceiverIsOurs(doc)
BothAreOurs(doc) == PayerIsOurs(doc) /\ ReceiverIsOurs(doc)

\* The direction, our account and the counterparty (name, tax ID, account) of a
\* document in which the party `ours` is ours and the party `theirs` is not.
SideLocals(type, doc, ours, theirs) ==
    [type |-> type,
     our_acc |-> doc[ours \o "Schet"],
     cp_raw |-> get_doc_party_name(doc, theirs),
     cp_inn |-> IF doc[theirs \o "INN"] = None THEN << >> ELSE doc[theirs \o "INN"],
     cp_acc |-> doc[theirs \o "Schet"]]

\* C2: for every document with exactly one of its payer and receiver accounts in
\* the organization map, the loop assigns direction expense, our account = the
\* payer account and the counterparty = the receiver's name, tax ID and account
\* when the payer account is ours, and direction income, our account = the
\* receiver account and the counterparty = the payer's name, tax ID and account
\* when the receiver account is ours, whether or not our account is the
\* document's file account.
C2_DirectionOfOneOurs ==
    [][DocTaken /\ OneIsOurs(NextDoc)
       => locals' = IF PayerIsOurs(NextDoc)
                    THEN SideLocals("expense", NextDoc, "Platelshchik", "Poluchatel")
                    ELSE SideLocals("income", NextDoc, "Poluchatel", "Platelshchik")]_vars

\* A document neither of whose accounts is its file account, with the receiver
\* account ours alone, was classified as an income.
C2_FallbackClassified ==
    /\ pc = "process"
    /\ doc_index > 0
    /\ OneIsOurs(LastDoc)
    /\ LastDoc.SchetFajla # LastDoc.PlatelshchikSchet
    /\ LastDoc.SchetFajla # LastDoc.PoluchatelSchet
    /\ locals.type = "income"
    /\ locals.our_acc = LastDoc.PoluchatelSchet
    /\ locals.cp_acc = LastDoc.PlatelshchikSchet

\* C3: a document whose payer account and receiver account are both keys of the
\* organization map is counted in the tally of internal transfers and adds no
\* transaction, whatever its names, date, amount and file account are.
C3_InternalSkipped ==
    [][DocTaken /\ BothAreOurs(NextDoc)
       => /\ skipped_internal' = skipped_internal + 1
          /\ processed' = processed]_vars

\* A document between two of our accounts, with names, a valid date and a
\* positive amount, was counted as an internal transfer and gave no transaction.
C3_InternalCounted ==
    /\ doc_index = 1
    /\ BothAreOurs(LastDoc)
    /\ get_doc_party_name(LastDoc, "Platelshchik") # << >>
    /\ get_doc_party_name(LastDoc, "Poluchatel") # << >>
    /\ parse_date(LastDoc.Data).ok
    /\ FloatGtZero(safe_float(LastDoc.Summa))
    /\ skipped_internal = 1
    /\ processed = << >>

\* C4: every transaction process_documents emits has an amount > 0, a date that
\* is a valid calendar date whose year is the transaction's year, a direction
\* that is 'income' or 'expense', and a non-empty counterparty key.
C4_EmittedValid ==
    \A i \in DOMAIN processed :
        /\ FloatGtZero(processed[i].amount)
        /\ parse_date(processed[i].date).ok
        /\ parse_date(processed[i].date).year = processed[i].year
        /\ processed[i].type \in {"income", "expense"}
        /\ processed[i].cp_id # << >>

\* x.strip() if x else ''
Trimmed(x) == IF Truthy(x) THEN Strip(x) ELSE << >>

\* The counterparty's side of the document a transaction of direction type came
\* from.
TheirSide(type) == IF type = "expense" THEN "Poluchatel" ELSE "Platelshchik"

\* The NAME of the key NAME_ACC of a transaction t.
KeyName(t) ==
    IF t.cp_name_normalized # <<"?">> THEN Upper(t.cp_name_normalized)
    ELSE IF t.cp_name_raw # <<"?">> THEN Upper(t.cp_name_raw)
    ELSE <<"#B", "#E", "#Z", "_", "#I", "#M", "#E", "#N", "#I">>

\* The key the rule of C5 gives a counterparty of trimmed tax ID inn and trimmed
\* account acc in a transaction t.
KeyOf(t, inn, acc) ==
    IF inn # << >> /\ inn # <<"0">>
    THEN <<"I", "N", "N", ":">> \o inn
    ELSE <<"N", "A", "M", "E", "_", "A", "C", "C", ":">> \o KeyName(t) \o <<"|">>
         \o (IF acc # << >> THEN acc ELSE <<"#B", "#E", "#Z", "_", "#S", "#CH", "#E", "#T", "#A">>)

\* C5: the counterparty key of an emitted transaction is "INN:" + the trimmed tax
\* ID of the counterparty when that is neither empty nor "0" (the reading of
\* "non-zero" taken here), whatever the name and the account are, and otherwise
\* "NAME_ACC:" + NAME + "|" + ACC, NAME being the uppercased normalized name, or
\* the uppercased trimmed raw name when the normalized name is the placeholder
\* '?', and ACC the trimmed account of the counterparty or a placeholder when it
\* is empty.
C5_CounterpartyKey ==
    [][Len(processed') = Len(processed) + 1
       => LET t == processed'[Len(processed')]
          IN  /\ t.cp_name_raw = get_doc_party_name(NextDoc, TheirSide(t.type))
              /\ t.cp_id = KeyOf(t, Trimmed(NextDoc[TheirSide(t.type) \o "INN"]),
                                 Trimmed(NextDoc[TheirSide(t.type) \o "Schet"]))]_vars

\* Two transactions were emitted, the first keyed by the tax ID of its
\* counterparty, the second, without a tax ID and with a name that does not
\* normalize, keyed by the raw name and the account.
C5_BothKeysEmitted ==
    /\ Len(processed) = 2
    /\ processed[1].cp_id = <<"I", "N", "N", ":", "7", "7", "0", "7", "6", "5", "4", "3", "2", "1">>
    /\ processed[2].cp_name_normalized = <<"?">>
    /\ processed[2].cp_id = <<"N", "A", "M", "E", "_", "A", "C", "C", ":", "1", "|", "4", "0", "8", "1", "7">>

UsableInn(inn) == inn # << >> /\ inn # <<"0">>

\* C6 as stated: two emitted transactions with the same non-empty, non-zero tax
\* ID have the same counterparty key, and two emitted transactions without a tax
\* ID, with the same counterparty account and the same normalized name, have the
\* same counterparty key.
C6_StableKeyAsStated ==
    \A i, j \in DOMAIN processed :
        /\ (UsableInn(processed[i].cp_inn) /\ processed[i].cp_inn = processed[j].cp_inn)
           => processed[i].cp_id = processed[j].cp_id
        /\ (/\ processed[i].cp_inn = << >>
            /\ processed[j].cp_inn = << >>
            /\ processed[i].cp_account = processed[j].cp_account
            /\ processed[i].cp_name_normalized = processed[j].cp_name_normalized)
           => processed[i].cp_id = processed[j].cp_id

\* C6, amended: two emitted transactions with the same non-empty tax ID other
\* than "0" have the same counterparty key whatever their raw names are, and two
\* emitted transactions without a tax ID, with the same counterparty account and
\* the same normalized name other than the placeholder '?', have the same
\* counterparty key.
C6_StableKey ==
    \A i, j \in DOMAIN processed :
        /\ (UsableInn(processed[i].cp_inn) /\ processed[i].cp_inn = processed[j].cp_inn)
           => processed[i].cp_id = processed[j].cp_id
        /\ (/\ processed[i].cp_inn = << >>
            /\ processed[j].cp_inn = << >>
            /\ processed[i].cp_account = processed[j].cp_account
            /\ processed[i].cp_name_normalized = processed[j].cp_name_normalized
            /\ processed[i].cp_name_normalized # <<"?">>)
           => processed[i].cp_id = processed[j].cp_id

\* Two transactions without a tax ID, with the same account and the same
\* normalized name under two raw names, were emitted with the same key.
C6_TwoSpellingsOneKey ==
    /\ Len(processed) = 2
    /\ processed[1].cp_inn = << >>
    /\ processed[2].cp_inn = << >>
    /\ processed[1].cp_account = processed[2].cp_account
    /\ processed[1].cp_name_raw # processed[2].cp_name_raw
    /\ processed[1].cp_name_normalized = processed[2].cp_name_normalized
    /\ processed[1].cp_name_normalized # <<"?">>
    /\ processed[1].cp_id = processed[2].cp_id

-----------------------------------------------------------------------------
(* Properties of detect_organizations                                        *)

\* The files of the corpus and their documents.
Files == {parsed_files_data[k] : k \in DOMAIN parsed_files_data}
CorpusDocs == {d \in UNION {{f.documents[k] : k \in DOMAIN f.documents} : f \in Files} : TRUE}

\* The non-empty main accounts the files declare, and the accounts of the
\* documents.
MainAccounts ==
    {f.header_info.OsnovnojSchetFajla : f \in Files} \ {None, << >>}
DocAccounts ==
    ({d.PlatelshchikSchet : d \in CorpusDocs} \cup {d.PoluchatelSchet : d \in CorpusDocs})
    \ {None, << >>}

\* The first file that declares the main account a.
OwnFile(a) ==
    parsed_files_data[
        CHOOSE k \in DOMAIN parsed_files_data :
            /\ parsed_files_data[k].header_info.OsnovnojSchetFajla = a
            /\ \A j \in 1..(k - 1) :
                   parsed_files_data[j].header_info.OsnovnojSchetFajla # a]

\* The default identity's name of an account, and whether the result gives the
\* account that name.
DefaultName(a) == <<"#O", "#r", "#g", "#a", "#n", "#i", "#z", "#a", "#c", "#i", "#ya", " ", "#s", "#ch", "#e", "#t", "#a", " ">> \o a
IsDefault(a) == detected_orgs[a].name = DefaultName(a)

\* Whether pass 1 left the account to pass 2.
LeftToPass2(a) == \E k \in DOMAIN needing_names : needing_names[k].acc = a

\* The documents of a list in which account a is the party `side` under a
\* non-empty name.
NamedAs(docs, a, side) ==
    LET Named(d) == d[side \o "Schet"] = a /\ get_doc_party_name(d, side) # << >>
    IN  SelectSeq(docs, Named)

\* The name and the tax ID of account a's own file: of the first document that
\* names a as the payer, else of the first that names it as the receiver, else
\* the header's payer or receiver name.
OwnSource(a) ==
    LET f == OwnFile(a)
        payers == NamedAs(f.documents, a, "Platelshchik")
        receivers == NamedAs(f.documents, a, "Poluchatel")
    IN  IF payers # << >>
        THEN [name |-> get_doc_party_name(payers[1], "Platelshchik"),
              inn |-> payers[1].PlatelshchikINN]
        ELSE IF receivers # << >>
        THEN [name |-> get_doc_party_name(receivers[1], "Poluchatel"),
              inn |-> receivers[1].PoluchatelINN]
        ELSE [name |-> IF Truthy(f.header_info.Platelshchik)
                       THEN f.header_info.Platelshchik
                       ELSE f.header_info.Poluchatel,
              inn |-> None]

\* The tax ID of account a's own file: the header's when it is non-empty, else
\* that of the document that gave the name, else none.
OwnInn(a) ==
    IF Truthy(OwnFile(a).header_info.INN) THEN OwnFile(a).header_info.INN
    ELSE IF Truthy(OwnSource(a).inn) THEN OwnSource(a).inn
    ELSE << >>

\* How many times the documents of all files name account a as n, and the names
\* and tax IDs they give it.
AllDocuments == AllDocs(parsed_files_data)
NameCount(a, n) ==
    Cardinality({k \in DOMAIN AllDocuments :
                    /\ AllDocuments[k].PlatelshchikSchet = a
                    /\ get_doc_party_name(AllDocuments[k], "Platelshchik") = n})
    + Cardinality({k \in DOMAIN AllDocuments :
                      /\ AllDocuments[k].PoluchatelSchet = a
                      /\ get_doc_party_name(AllDocuments[k], "Poluchatel") = n})
HeaderCount(a, n) ==
    Cardinality({k \in DOMAIN parsed_files_data :
                    /\ parsed_files_data[k].header_info.OsnovnojSchetFajla = a
                    /\ parsed_files_data[k].header_info.Platelshchik = n})
    + Cardinality({k \in DOMAIN parsed_files_data :
                      /\ parsed_files_data[k].header_info.OsnovnojSchetFajla = a
                      /\ parsed_files_data[k].header_info.Poluchatel = n})
DocNames(a) ==
    {get_doc_party_name(d, "Platelshchik") : d \in {x \in CorpusDocs : x.PlatelshchikSchet = a}}
    \cup {get_doc_party_name(d, "Poluchatel") : d \in {x \in CorpusDocs : x.PoluchatelSchet = a}}
HeaderNames(a) ==
    {f.header_info.Platelshchik : f \in {x \in Files : x.header_info.OsnovnojSchetFajla = a}}
    \cup {f.header_info.Poluchatel : f \in {x \in Files : x.header_info.OsnovnojSchetFajla = a}}
ObservedInns(a) ==
    ({d.PlatelshchikINN : d \in {x \in CorpusDocs : x.PlatelshchikSchet = a}}
     \cup {d.PoluchatelINN : d \in {x \in CorpusDocs : x.PoluchatelSchet = a}})
    \ {None, << >>}

\* A valid name: non-empty, not the placeholder, without the default prefix.
ValidName(n) ==
    n # None /\ n # << >> /\ n # <<"?">> /\ ~Contains(n, <<"#O", "#r", "#g", "#a", "#n", "#i", "#z", "#a", "#c", "#i", "#ya", " ", "#s", "#ch", "#e", "#t", "#a">>)

\* n is a best name of the documents' names of a: a valid name none of the valid
\* names is more frequent than, nor as frequent and longer.
IsBestDocName(n, a) ==
    /\ n \in DocNames(a)
    /\ ValidName(n)
    /\ \A m \in DocNames(a) :
           ValidName(m) =>
               \/ NameCount(a, m) < NameCount(a, n)
               \/ NameCount(a, m) = NameCount(a, n) /\ Len(m) <= Len(n)

\* The same over the names of the documents and of the headers together.
IsBestOfAllNames(n, a) ==
    /\ n \in DocNames(a) \cup HeaderNames(a)
    /\ ValidName(n)
    /\ \A m \in DocNames(a) \cup HeaderNames(a) :
           ValidName(m) =>
               \/ NameCount(a, m) + HeaderCount(a, m) < NameCount(a, n) + HeaderCount(a, n)
               \/ /\ NameCount(a, m) + HeaderCount(a, m)
                         = NameCount(a, n) + HeaderCount(a, n)
                  /\ Len(m) <= Len(n)

\* C7 as stated: the result has an entry for every account that is a file's main
\* account or the payer or receiver account of a document.
C7_EveryAccountHasEntry ==
    pc = "detected" => MainAccounts \cup DocAccounts \subseteq DOMAIN detected_orgs

\* C7, amended: the result has one entry for every non-empty main account a file
\* with a header declares, and none for any other account: an account that is
\* only the payer or receiver account of documents gets no entry.
C7_EntriesAreMainAccounts ==
    pc = "detected" => DOMAIN detected_orgs = MainAccounts

\* detect_organizations returned a map that is not empty and lacks an account of
\* a document.
C7_DocAccountWithoutEntry ==
    /\ pc = "detected"
    /\ DOMAIN detected_orgs # {}
    /\ \E a \in DocAccounts : a \notin DOMAIN detected_orgs

\* Whether the normalization of a raw name gives a name, not the placeholder.
Normalizes(name, inn) ==
    normalize_and_classify(name, inn).core_name \notin {None, << >>, <<"?">>}

\* The name and the tax ID pass 2 has for an account: the best name of the
\* Counter, and the one tax ID seen or else the tax ID of the own file.
Pass2Name(a) ==
    IF a \in DOMAIN names_found_global /\ names_found_global[a] # << >>
    THEN get_best_name(names_found_global[a], <<"#O", "#r", "#g", "#a", "#n", "#i", "#z", "#a", "#c", "#i", "#ya", " ", "#s", "#ch", "#e", "#t", "#a">>)
    ELSE None
Pass2Inn(a) ==
    IF Cardinality(ObservedInns(a)) = 1 THEN CHOOSE x \in ObservedInns(a) : TRUE
    ELSE OwnInn(a)

\* Whether a usable raw name was found for the account and normalized.
NameFound(a) ==
    \/ Truthy(OwnSource(a).name) /\ Normalizes(OwnSource(a).name, OwnInn(a))
    \/ ValidName(Pass2Name(a)) /\ Normalizes(Pass2Name(a), Pass2Inn(a))

\* The entry of a is the normalization of its raw name.
IsNormalization(e) ==
    /\ e.normalized = normalize_and_classify(e.name, e.inn).core_name
    /\ e.legal_form = normalize_and_classify(e.name, e.inn).form

\* C8: the result has an entry for every non-empty main account of a file; every
\* entry has a non-empty normalized name other than '?'; it is the normalization
\* of a raw name or the default identity (name = normalized = "Организация
\* счета " + account, legal form ДРУГОЕ), the default exactly when no usable raw
\* name was found for the account or its normalization gave the placeholder.
C8_EveryEntryHasIdentity ==
    pc = "detected" =>
        /\ MainAccounts \subseteq DOMAIN detected_orgs
        /\ \A a \in DOMAIN detected_orgs :
               /\ detected_orgs[a].normalized \notin {None, << >>, <<"?">>}
               /\ IF IsDefault(a)
                  THEN /\ detected_orgs[a].normalized = DefaultName(a)
                       /\ detected_orgs[a].legal_form = <<"#D", "#R", "#U", "#G", "#O", "#E">>
                  ELSE IsNormalization(detected_orgs[a])
               /\ IsDefault(a) <=> ~NameFound(a)

\* An account whose only name does not normalize got the default identity.
C8_DefaultAfterPlaceholder ==
    /\ pc = "detected"
    /\ \E a \in DOMAIN detected_orgs :
           /\ IsDefault(a)
           /\ OwnSource(a).name = <<"1">>
           /\ a \in DOMAIN names_found_global
           /\ names_found_global[a] # << >>

\* C9 as stated: the raw name of every account with a non-default identity is
\* the best name of all the names attached to it, of documents and headers.
C9_RawNameIsBestOfAll ==
    pc = "detected" =>
        \A a \in DOMAIN detected_orgs :
            ~IsDefault(a) => IsBestOfAllNames(detected_orgs[a].name, a)

\* C9, amended: the raw name of an account with a non-default identity is, when
\* pass 1 identified it, the name its own file gives first (the first document
\* naming it as the payer, else the first naming it as the receiver, else the
\* header's payer or receiver name), which depends on the order of the
\* documents; and when pass 2 identified it, a best name of the names the
\* documents of all files give it (most frequent valid name, then longest), the
\* names of the headers not counted.
C9_RawNameByPass ==
    pc = "detected" =>
        \A a \in DOMAIN detected_orgs :
            ~IsDefault(a) =>
                IF LeftToPass2(a) THEN IsBestDocName(detected_orgs[a].name, a)
                ELSE detected_orgs[a].name = OwnSource(a).name

\* An account two documents of its file name differently kept the name of the
\* first, which is not the longest.
C9_FirstNameKept ==
    /\ pc = "detected"
    /\ \E a \in DOMAIN detected_orgs :
           /\ ~IsDefault(a)
           /\ ~LeftToPass2(a)
           /\ Len(OwnFile(a).documents) = 2
           /\ detected_orgs[a].name = get_doc_party_name(OwnFile(a).documents[1], "Platelshchik")
           /\ ~IsBestDocName(detected_orgs[a].name, a)

-----------------------------------------------------------------------------
(* The scenario of a whole run                                               *)

\* C1: for the one file of main account 40702810000000012345 whose header names
\* the payer "ООО РОМАШКА", with one document of that payer account, amount
\* "1500,50", date "15.03.2024", receiver "Иванов И.И." of account
\* 40817810000000098765 without a tax ID, detect_organizations maps the main
\* account to the normalized name "РОМАШКА" of form ООО, and process_documents
\* gives exactly one transaction: an expense of 1500.5 to a counterparty of legal
\* form ФЛ or ИП whose display hint is "Иванов И.И.".
C1_Scenario ==
    pc = "done"
    /\ parsed_files_data =
           <<ScenarioFile(OOO_ROMASHKA,
                          <<ScenarioDoc(IVANOV_II, None, <<"1", "5", "0", "0", ",", "5", "0">>, DATE_1)>>)>>
    => /\ ACC_COMPANY \in DOMAIN detected_orgs
       /\ detected_orgs[ACC_COMPANY].normalized = <<"#R", "#O", "#M", "#A", "#SH", "#K", "#A">>
       /\ detected_orgs[ACC_COMPANY].legal_form = <<"#O", "#O", "#O">>
       /\ Len(processed) = 1
       /\ processed[1].type = "expense"
       /\ processed[1].amount = [kind |-> "num", neg |-> FALSE, mant |-> 15005, exp |-> -1]
       /\ processed[1].cp_legal_form \in {FL, IP}
       /\ processed[1].cp_display_name_hint = IVANOV_II


-----------------------------------------------------------------------------
(* get_best_name *)

\* The items of a Counter whose name is non-empty, is not '?' and does not hold
\* the default label.
Candidates(counter) ==
    {i \in DOMAIN counter :
        /\ counter[i].name # << >>
        /\ counter[i].name # <<"?">>
        /\ ~Contains(counter[i].name, DEFAULT_ORG_NAME_PREFIX)}

\* Item i of a Counter is counted more often than item j, or as often and is at
\* least as long.
NotWorse(counter, i, j) ==
    \/ counter[i].count > counter[j].count
    \/ /\ counter[i].count = counter[j].count
       /\ Len(counter[i].name) >= Len(counter[j].name)

BestNameReturned == pc = "returned" /\ "names_counter" \in DOMAIN args

\* C11: get_best_name returns nothing when the Counter has no name that is
\* non-empty, differs from '?' and does not hold the default label; otherwise it
\* returns one of those names, counted at least as often as every other of them
\* and at least as long as every other of them counted as often.
C11_BestName ==
    BestNameReturned =>
        LET counter == args.names_counter
            good == Candidates(counter)
        IN  IF good = {} THEN ret = None
            ELSE \E i \in good :
                    /\ ret = counter[i].name
                    /\ \A j \in good : NotWorse(counter, i, j)

\* get_best_name has returned the longer of two names counted as often, from a
\* Counter that counts a name it may not return more often and lists the shorter
\* name first.
C11_LongestOfTied ==
    /\ BestNameReturned
    /\ LET counter == args.names_counter
           good == Candidates(counter)
       IN  /\ \E i \in DOMAIN counter : \E j \in good :
                 i \notin good /\ counter[i].count > counter[j].count
           /\ \E i, j \in good :
                 /\ i < j
                 /\ counter[i].count = counter[j].count
                 /\ Len(counter[i].name) < Len(counter[j].name)
                 /\ ret = counter[j].name

-----------------------------------------------------------------------------
(* The accounting of process_documents *)

\* The side of a document with exactly one account ours that is ours, and the
\* other side.
OurSide(doc) == IF PayerIsOurs(doc) THEN "Platelshchik" ELSE "Poluchatel"
OtherSide(doc) == IF PayerIsOurs(doc) THEN "Poluchatel" ELSE "Platelshchik"

\* The first check a document fails among not-ours, internal-transfer,
\* missing-organization-details and no-counterparty-name (the ambiguous mismatch
\* cannot fail between them: one side is ours); "none" when it passes them all.
FirstFailing(doc) ==
    IF ~PayerIsOurs(doc) /\ ~ReceiverIsOurs(doc) THEN "not_ours"
    ELSE IF BothAreOurs(doc) THEN "internal"
    ELSE IF DOMAIN our_orgs_map[doc[OurSide(doc) \o "Schet"]] = {} THEN "details"
    ELSE IF get_doc_party_name(doc, OtherSide(doc)) \in {<< >>, <<"?">>} THEN "cp_name"
    ELSE "none"

One(b) == IF b THEN 1 ELSE 0

SkipTallies ==
    skipped_no_our_org + skipped_internal + skipped_mismatch + skipped_details_missing
    + skipped_no_cp_name + skipped_invalid_data

\* C12 as stated: every document is emitted or counted in one tally, and the
\* caller receives the counts of the tallies together with the list.
C12_CountsReturned ==
    /\ Len(processed) + SkipTallies = doc_index
    /\ pc = "done" => \E k \in DOMAIN ret : k # "processed"

\* C12, amended: every document taken is emitted or counted in exactly one tally,
\* that of the first check it fails in the order not-ours, internal-transfer,
\* ambiguous-mismatch, missing-organization-details, no-counterparty-name,
\* invalid-data, so that the emitted and the tallies add up to the documents
\* taken; at the end the function writes the counts to the log and returns the
\* list alone.
C12_OneTallyPerDocument ==
    /\ [](Len(processed) + SkipTallies = doc_index)
    /\ [](pc = "done" =>
            /\ ret = [processed |-> processed]
            /\ Len(stats_log) = 1
            /\ stats_log[1].processed_count = Len(processed)
            /\ stats_log[1].skipped_no_our_org = skipped_no_our_org
            /\ stats_log[1].skipped_internal = skipped_internal
            /\ stats_log[1].skipped_mismatch = skipped_mismatch
            /\ stats_log[1].skipped_details_missing = skipped_details_missing
            /\ stats_log[1].skipped_no_cp_name = skipped_no_cp_name
            /\ stats_log[1].skipped_invalid_data = skipped_invalid_data
            /\ stats_log[1].processed_count + stats_log[1].total_skipped
               = Len(all_documents))
    /\ [][DocTaken =>
            LET failed == FirstFailing(NextDoc)
            IN  /\ skipped_no_our_org' = skipped_no_our_org + One(failed = "not_ours")
                /\ skipped_internal' = skipped_internal + One(failed = "internal")
                /\ skipped_mismatch' = skipped_mismatch
                /\ skipped_details_missing' =
                       skipped_details_missing + One(failed = "details")
                /\ skipped_no_cp_name' = skipped_no_cp_name + One(failed = "cp_name")
                /\ Len(processed') + skipped_invalid_data' =
                       Len(processed) + skipped_invalid_data + One(failed = "none")
                /\ Len(processed') >= Len(processed)
                /\ skipped_invalid_data' >= skipped_invalid_data]_vars

\* process_documents has returned after a document that has no organization
\* details, no counterparty name and no valid date or amount, counted as missing
\* details alone, and the log holds the counts.
C12_FirstFailureCounted ==
    /\ pc = "done"
    /\ doc_index = 1
    /\ PayerIsOurs(LastDoc)
    /\ DOMAIN our_orgs_map[LastDoc.PlatelshchikSchet] = {}
    /\ get_doc_party_name(LastDoc, "Poluchatel") = << >>
    /\ ~parse_date(LastDoc.Data).ok
    /\ ~FloatGtZero(safe_float(LastDoc.Summa))
    /\ skipped_details_missing = 1
    /\ SkipTallies = 1
    /\ stats_log[1].total_skipped = 1

\* The date string the loop selects for a document: the date of the debit for an
\* expense, of the credit for an income, or else the date of the document.
SelectedDate(doc) ==
    LET own == IF PayerIsOurs(doc) THEN doc.DataSpisano ELSE doc.DataPostupilo
    IN  IF Truthy(own) THEN own ELSE doc.Data

\* A document with exactly one side ours, organization details for that side and
\* a counterparty name that is neither empty nor the placeholder.
NamedOneSided(doc) == OneIsOurs(doc) /\ FirstFailing(doc) = "none"

\* C13: a document with exactly one side ours and a counterparty name that is
\* neither empty nor '?' is counted as invalid data and not emitted whenever its
\* amount parses to a value that is not strictly positive or its selected date
\* string fails to parse.
C13_InvalidDataSkipped ==
    [][/\ DocTaken
       /\ NamedOneSided(NextDoc)
       /\ \/ ~FloatGtZero(safe_float(NextDoc.Summa))
          \/ ~parse_date(SelectedDate(NextDoc)).ok
       => /\ skipped_invalid_data' = skipped_invalid_data + 1
          /\ processed' = processed]_vars

\* The same for the amounts that parse to a number: the one case the loop lets
\* through is an amount that parses to a value that is no number.
InvalidNumberSkipped ==
    [][/\ DocTaken
       /\ NamedOneSided(NextDoc)
       /\ safe_float(NextDoc.Summa).kind # "nan"
       /\ \/ ~FloatGtZero(safe_float(NextDoc.Summa))
          \/ ~parse_date(SelectedDate(NextDoc)).ok
       => /\ skipped_invalid_data' = skipped_invalid_data + 1
          /\ processed' = processed]_vars

\* C14: a document with exactly one side ours (the organization map holding
\* details for that side, as every map detect_organizations returns does) whose
\* counterparty name, read from the name field of the other side or from its
\* '1'-suffixed alternative, is empty or '?' is counted in the tally of missing
\* counterparty names and not emitted; no emitted transaction has an empty or
\* '?' raw counterparty name.
C14_NamelessSkipped ==
    /\ [](\A i \in DOMAIN processed : processed[i].cp_name_raw \notin {<< >>, <<"?">>})
    /\ [][DocTaken /\ OneIsOurs(NextDoc) /\ FirstFailing(NextDoc) = "cp_name"
          => /\ skipped_no_cp_name' = skipped_no_cp_name + 1
             /\ processed' = processed]_vars

\* An expense with a valid date and a positive amount whose receiver is named by
\* a placeholder between blanks was counted as having no counterparty name, and
\* nothing was emitted.
C14_PaddedPlaceholderCounted ==
    /\ doc_index = 1
    /\ PayerIsOurs(LastDoc) /\ ~ReceiverIsOurs(LastDoc)
    /\ LastDoc.Poluchatel = <<" ", "?", " ">>
    /\ parse_date(LastDoc.Data).ok
    /\ FloatGtZero(safe_float(LastDoc.Summa))
    /\ skipped_no_cp_name = 1
    /\ processed = << >>

\* C15: in every emitted transaction the display hint is None unless the
\* counterparty's legal form is ИП or ФЛ, and for those forms with a normalized
\* name other than '?' it is format_fio_display of the normalized name.
C15_HintForPersons ==
    \A i \in DOMAIN processed :
        LET t == processed[i]
        IN  IF t.cp_legal_form \in { <<"#I", "#P">>, <<"#F", "#L">> }
            THEN t.cp_name_normalized # <<"?">>
                 => t.cp_display_name_hint = format_fio_display(t.cp_name_normalized)
            ELSE t.cp_display_name_hint = None

\* Two transactions were emitted, one to a person, with the person's name as
\* the hint, and one to a company, without a hint.
C15_PersonAndCompany ==
    \E i, j \in DOMAIN processed :
        /\ processed[i].cp_legal_form = <<"#F", "#L">>
        /\ processed[i].cp_display_name_hint = <<"#I", "#v", "#a", "#n", "#o", "#v", " ", "#I", "#v", "#a", "#n">>
        /\ processed[j].cp_legal_form = <<"#O", "#O", "#O">>
        /\ processed[j].cp_name_normalized = <<"#L", "#YU", "#T", "#I", "#K">>
        /\ processed[j].cp_display_name_hint = None

-----------------------------------------------------------------------------
(* normalize_and_classify and detect_final_legal_form called on their own *)

\* A call of fn has returned.
Returned(fn) == pc = "returned" /\ args.fn = fn
\* The raw name of the call is missing, empty or nothing but whitespace.
BlankName(raw_name) == raw_name = None \/ \A i \in DOMAIN raw_name : IsSpace(raw_name[i])
\* The labels that are no keyword form of their own.
DefaultForms == {FL, DRUGOE, YUL, IP}

\* C16: normalize_and_classify returns, for every raw name and tax ID, a triple
\* (core_name, form, original) whose core_name is neither missing nor empty and
\* whose original is the trimmed raw name; a missing, empty or blank raw name
\* gives exactly ("?", ФЛ, ""); and when stripping the noise leaves no core name,
\* the core_name is the label of the detected form if that is a keyword form
\* (none of ФЛ, ДРУГОЕ, ЮЛ, ИП) and the placeholder "?" otherwise.
C16_AlwaysATriple ==
    Returned("normalize_and_classify") =>
        /\ DOMAIN ret = {"core_name", "form", "original"}
        /\ ret.core_name # None
        /\ ret.core_name # << >>
        /\ BlankName(args.raw_name) =>
               ret = [core_name |-> <<"?">>, form |-> FL, original |-> << >>]
        /\ ~BlankName(args.raw_name) =>
               /\ ret.original = Strip(args.raw_name)
               /\ ret.form = detect_final_legal_form(ret.original, args.inn)
               /\ normalize_name_core(ret.original, ret.form) = None =>
                      ret.core_name = IF ret.form \in DefaultForms THEN <<"?">>
                                      ELSE ret.form
\* A name of nothing but a keyword has returned with the label of its form as
\* its core name.
C16_LabelAsName ==
    /\ Returned("normalize_and_classify")
    /\ args.round = 0
    /\ ~BlankName(args.raw_name)
    /\ normalize_name_core(ret.original, ret.form) = None
    /\ ret.form \notin DefaultForms
    /\ ret.core_name = ret.form

\* The form of a keyword <<f, k>> of the catalogue, and every keyword of it.
FormOf(p) == LEGAL_FORMS_KEYWORDS[p[1]].form
AllKeywords ==
    UNION {{<<f, k>> : k \in DOMAIN LEGAL_FORMS_KEYWORDS[f].keywords} :
           f \in DOMAIN LEGAL_FORMS_KEYWORDS}
\* p is one of the longest keywords of found.
IsLongest(p, found) == p \in found /\ \A q \in found : KwLen(q) <= KwLen(p)
\* form is the form of a longest keyword of found, and it is ИП if a keyword of
\* ИП is among the longest.
SelectsLongest(form, found) ==
    /\ \E p \in found : IsLongest(p, found) /\ FormOf(p) = form
    /\ (\E p \in found : IsLongest(p, found) /\ FormOf(p) = IP) => form = IP
\* The keywords of every form that stand in s as a whole word or in parentheses.
StatedMatches(s) ==
    {p \in AllKeywords :
        \E i \in 1..Len(s) :
            \/ WordKeywordAt(s, i, LEGAL_FORMS_KEYWORDS[p[1]].keywords[p[2]])
            \/ ParenKeywordAt(s, i, LEGAL_FORMS_KEYWORDS[p[1]].keywords[p[2]])}
\* The name of the call as the patterns see it.
UpperName == Strip(Upper(args.raw_name))

\* C17 as stated: among the keywords of every form that stand anywhere in the
\* name as whole words or in parentheses, detect_final_legal_form returns the
\* form of the longest, and ИП when ИП shares the greatest length.
C17_LongestOfWholeWords ==
    (Returned("detect_final_legal_form") /\ ~BlankName(args.raw_name)) =>
        (StatedMatches(UpperName) # {} => SelectsLongest(ret, StatedMatches(UpperName)))
\* C17: among the keywords found in the name (a keyword of ИП only at the start
\* of the name with whitespace behind it, or in parentheses; a keyword of any
\* other form as a whole word anywhere, or in parentheses),
\* detect_final_legal_form returns the form of the longest; ИП when ИП shares
\* the greatest length, otherwise the first form of the catalogue that has it.
C17_LongestMatch ==
    (Returned("detect_final_legal_form") /\ ~BlankName(args.raw_name)) =>
        (FoundKeywords(UpperName) # {} =>
            /\ SelectsLongest(ret, FoundKeywords(UpperName))
            /\ \A q \in FoundKeywords(UpperName) :
                   IsLongest(q, FoundKeywords(UpperName)) =>
                       \/ ret = IP
                       \/ \E p \in FoundKeywords(UpperName) :
                              /\ IsLongest(p, FoundKeywords(UpperName))
                              /\ FormOf(p) = ret
                              /\ p[1] <= q[1])
\* A name with a keyword of ИП and one of another form, both of the greatest
\* length, has returned ИП.
C17_EntrepreneurWinsTie ==
    /\ Returned("detect_final_legal_form")
    /\ ~BlankName(args.raw_name)
    /\ \E p, q \in FoundKeywords(UpperName) :
           /\ IsLongest(p, FoundKeywords(UpperName)) /\ FormOf(p) = IP
           /\ IsLongest(q, FoundKeywords(UpperName)) /\ FormOf(q) # IP
    /\ ret = IP

\* The length of the tax ID of the call once trimmed, 0 if there is none.
InnLength == IF Truthy(args.inn) THEN Len(Strip(args.inn)) ELSE 0
\* The name of the call without digits, dots, commas and quotes, trimmed.
NameForFioCheck == Strip(RemoveChars(args.raw_name, Digits \cup {".", ",", "\"", "'"}))

\* C18: detect_final_legal_form applies its fallbacks in strict precedence.  A
\* missing, empty or blank name gives ФЛ.  Otherwise, if a keyword is found in
\* the name, the form is that of a found keyword, whatever the tax ID.  With
\* no keyword found, a tax ID of 12 characters (trimmed) gives ФЛ and one of 10
\* gives ЮЛ.  With neither, the form is ФЛ if the name, its digits, dots, commas
\* and quotes removed, consists of words of (Russian) letters and hyphens of
\* which two or more are capitalized, and ДРУГОЕ otherwise.
C18_Precedence ==
    Returned("detect_final_legal_form") =>
        IF BlankName(args.raw_name) THEN ret = FL
        ELSE IF FoundKeywords(UpperName) # {}
             THEN \E p \in FoundKeywords(UpperName) : FormOf(p) = ret
        ELSE IF InnLength = 12 THEN ret = FL
        ELSE IF InnLength = 10 THEN ret = YUL
        ELSE IF CountFioWords(NameForFioCheck, 1) >= 2 /\ IS_FIO_STRUCTURE(NameForFioCheck)
             THEN ret = FL
        ELSE ret = DRUGOE
\* A name with a keyword has returned the keyword's form although its tax ID
\* has the twelve characters of a person's.
C18_KeywordBeatsInn ==
    /\ Returned("detect_final_legal_form")
    /\ ~BlankName(args.raw_name)
    /\ FoundKeywords(UpperName) # {}
    /\ InnLength = 12
    /\ ret \notin {FL, YUL, DRUGOE}

\* The forms of persons, whose names keep their casing; every other form is
\* organizational.
PersonForms == {IP, FL, IP_FL}
\* The trash patterns find nothing to remove in x.
NoNoise(x) == Strip(CollapseSpaces(ApplyTrashPatterns(x))) = x
\* normalize_and_classify has returned from a second pass: its raw name was the
\* core name that a pass before returned for an organizational form, and holds
\* no noise.
SecondPassReturned ==
    /\ Returned("normalize_and_classify")
    /\ args.round >= 1
    /\ args.first_form \notin PersonForms
    /\ NoNoise(args.raw_name)

\* C19: idempotence of normalization.  For a core name x that
\* normalize_and_classify returned for an organizational form and that holds
\* no noise, normalize_and_classify(x) returns x again as its core name.
C19_Idempotent == SecondPassReturned => ret.core_name = args.raw_name
\* The same for the core names in which no keyword of a legal form is left.
IdempotentWithoutKeyword ==
    (SecondPassReturned /\ FoundKeywords(UpperName) = {}) => ret.core_name = args.raw_name

-----------------------------------------------------------------------------
(* The final details of the counterparty groups of a report *)

\* The groups that are finalized and whose tax ID and raw names no group before
\* them has: their name and form are computed, not taken from the cache.
ComputedGroups ==
    {i \in 1..group_index :
        \A j \in 1..(i - 1) :
            CacheKey(cp_aggregated_data[j].details) # CacheKey(cp_aggregated_data[i].details)}
\* The raw best name of a group and its normalization with the group's tax ID.
BestOf(details) == get_best_name(details.names_counter, DEFAULT_ORG_NAME_PREFIX)
NormalizedName(raw_name, details) == normalize_and_classify(raw_name, details.inn)
Succeeds(nac) == Truthy(nac.core_name) /\ nac.core_name # <<"?">>
\* The raw names of a group other than best that do not hold the default label
\* and that normalize to more than the placeholder.
OtherUsableNames(details, best) ==
    {n \in {details.names_counter[i].name : i \in DOMAIN details.names_counter} :
        /\ n # best
        /\ ~Contains(n, DEFAULT_ORG_NAME_PREFIX)
        /\ Succeeds(NormalizedName(n, details))}
\* details has the name and the form of the triple nac.
HasIdentity(details, nac) ==
    details.name_normalized = nac.core_name /\ details.legal_form = nac.form
\* The claimed final name and form of a group whose raw best name is best.
CanonicalFor(details, best) ==
    IF Succeeds(NormalizedName(best, details))
    THEN HasIdentity(details, NormalizedName(best, details))
    ELSE IF OtherUsableNames(details, best) # {}
    THEN \E n \in OtherUsableNames(details, best) :
             HasIdentity(details, NormalizedName(n, details))
    ELSE IF Truthy(best)
    THEN details.name_normalized = best /\ details.legal_form = DRUGOE
    ELSE details.name_normalized = <<"?">> /\ details.legal_form = DRUGOE

\* C20: the final name and form of every counterparty group (here: of every
\* group that is not answered from the cache) are those of
\* normalize_and_classify(best name of the group's raw names, the group's tax
\* ID); when that gives the placeholder they are, in order: the normalization
\* of a different raw name of the group that does not hold the default label
\* and normalizes, if the group has one; else the raw best name as it is with
\* the form ДРУГОЕ; else "?" with the form ДРУГОЕ.
C20_CanonicalIdentity ==
    \A i \in ComputedGroups :
        CanonicalFor(cp_aggregated_data[i].details, BestOf(cp_aggregated_data[i].details))
\* The same for the groups whose raw best name normalizes.
RederivedFromBestName ==
    \A i \in ComputedGroups :
        Succeeds(NormalizedName(BestOf(cp_aggregated_data[i].details),
                                cp_aggregated_data[i].details)) =>
            CanonicalFor(cp_aggregated_data[i].details,
                         BestOf(cp_aggregated_data[i].details))

-----------------------------------------------------------------------------
(* process_documents and what it leaves alone *)

\* C21: process_documents reads the map of our organizations and never writes
\* it: no step of it changes the accounts of the map, the record of any of them
\* or the list of documents, so the accounts that are ours are the same for
\* every document from the first to the last.
C21_MapReadOnly ==
    [][/\ DOMAIN our_orgs_map' = DOMAIN our_orgs_map
       /\ our_orgs_map' = our_orgs_map
       /\ all_documents' = all_documents]_vars
\* process_documents has returned after two documents or more, one of which it
\* emitted with the details of our organization read from the map.
C21_SeveralDocumentsRead ==
    /\ pc = "done"
    /\ doc_index >= 2
    /\ processed # << >>
    /\ \E a \in DOMAIN our_orgs_map :
           /\ DOMAIN our_orgs_map[a] # {}
           /\ processed[1].our_account = a
           /\ processed[1].our_org_normalized = our_orgs_map[a].normalized

-----------------------------------------------------------------------------
(* The control flow of a run *)

\* The files of a data directory that parse_1c_file parsed.
ParsedFiles(files) ==
    LET ok == SelectSeq(files, LAMBDA f : f.ok)
    IN  [i \in DOMAIN ok |-> ok[i].file]
\* detect_organizations returns a map that is not empty: some parsed file
\* declares its main account.
SomeAccount(parsed) ==
    \E i \in DOMAIN parsed : Truthy(parsed[i].header_info.OsnovnojSchetFajla)
BothGenerators ==
    <<"generate_counterparty_annual_report", "generate_org_comparison_report">>

\* C22: a run parses every file, then detects the organizations, then
\* classifies, then generates the reports: a run whose parsed files give no
\* organization ends as a failure with no reports, and a run whose parsed files
\* give an organization and a document ends after process_documents with both
\* report generators invoked, on the empty list too.
C22_RunControlFlow ==
    pc = "exit" =>
        LET parsed == ParsedFiles(args.files)
        IN  /\ (parsed # << >> /\ ~SomeAccount(parsed)) =>
                   (ret.exit_code = 1 /\ ret.invoked = << >>)
            /\ (SomeAccount(parsed) /\ AllDocs(parsed) # << >>) =>
                   /\ ret.parsed = Len(parsed)
                   /\ Len(ret.invoked) = Len(BothGenerators)

-----------------------------------------------------------------------------
(* The skip for a file account that decides nothing *)

\* C23: after the two early skips exactly one account of a document is ours, so
\* the fallback always decides the direction: no document is ever counted as a
\* file-account mismatch and the mismatch tally is 0 to the end of the call.
C23_NoMismatchSkip ==
    /\ skipped_mismatch = 0
    /\ (pc = "done" => stats_log[Len(stats_log)].skipped_mismatch = 0)
\* process_documents has returned after a document one of whose accounts is
\* ours and whose file account is the other account or neither.
C23_FallbackDecided ==
    /\ pc = "done"
    /\ \E i \in DOMAIN all_documents :
           LET p_ours == all_documents[i].PlatelshchikSchet \in DOMAIN our_orgs_map
               r_ours == all_documents[i].PoluchatelSchet \in DOMAIN our_orgs_map
           IN  /\ p_ours # r_ours
               /\ all_documents[i].SchetFajla #
                      (IF p_ours THEN all_documents[i].PlatelshchikSchet
                       ELSE all_documents[i].PoluchatelSchet)

-----------------------------------------------------------------------------
(* The noise-removal stage *)

\* The patterns of TRASH_PATTERNS_SPECIFIC that change the string s.
ChangingPatterns(s) == {i \in 0..10 : TrashPatternSub(i, s) # s}

\* C24: the string that the noise-removal stage of normalize_name_core hands to
\* the removal of the legal form is a fixed point of every cleanup rule:
\* applying any rule to it again changes nothing.
C24_NoiseFixedPoint ==
    pc = "legal_form" => ChangingPatterns(ret.cleaned) = {}

-----------------------------------------------------------------------------
(* The date of the operation *)

\* The date field of the document's direction and the date it holds.
DirectionDate(doc) == IF PayerIsOurs(doc) THEN doc.DataSpisano ELSE doc.DataPostupilo
\* The document taken passes every check before that of the date and the
\* amount, and its amount is a positive number.
DateDecides ==
    /\ DocTaken
    /\ NamedOneSided(NextDoc)
    /\ FloatGtZero(safe_float(NextDoc.Summa))
\* The document taken is emitted with the date that date_str holds.
EmittedWithDate(date_str) ==
    /\ Len(processed') = Len(processed) + 1
    /\ processed'[Len(processed')].date = FormatDate(parse_date(date_str))
    /\ processed'[Len(processed')].year = parse_date(date_str).year
    /\ skipped_invalid_data' = skipped_invalid_data
\* The document taken is counted as invalid data and not emitted.
DroppedAsInvalid ==
    /\ skipped_invalid_data' = skipped_invalid_data + 1
    /\ processed' = processed

\* C25 as stated: the date is read from the date field of the direction and
\* from the date of the document when that field is absent or empty, and a
\* document is dropped as invalid data only when neither the field of the
\* direction nor the date of the document holds a date that parses.
C25_DroppedOnlyWithoutDate ==
    [][DateDecides =>
          /\ parse_date(DirectionDate(NextDoc)).ok
                 => EmittedWithDate(DirectionDate(NextDoc))
          /\ (~Truthy(DirectionDate(NextDoc)) /\ parse_date(NextDoc.Data).ok)
                 => EmittedWithDate(NextDoc.Data)
          /\ DroppedAsInvalid
                 => /\ ~parse_date(DirectionDate(NextDoc)).ok
                    /\ ~parse_date(NextDoc.Data).ok]_vars

\* C25, amended: the date string is that of the date field of the direction
\* (debit for an expense, credit for an income) when that field is neither
\* absent nor empty, and the date of the document otherwise; the document is
\* emitted with that date when the string parses and dropped as invalid data
\* when it does not, so a date of the direction that is present and does not
\* parse drops the document even when the date of the document is valid.
C25_SelectedDateDecides ==
    [][DateDecides =>
          LET date_str == IF Truthy(DirectionDate(NextDoc)) THEN DirectionDate(NextDoc)
                          ELSE NextDoc.Data
          IN  IF parse_date(date_str).ok THEN EmittedWithDate(date_str)
              ELSE DroppedAsInvalid]_vars
\* An expense whose date of debit does not parse and whose date of the document
\* is valid was dropped as invalid data, after an income with an empty date of
\* credit that was emitted with the date of the document.
C25_UnparsableDebitDate ==
    /\ doc_index = 2
    /\ ~PayerIsOurs(all_documents[1])
    /\ ~Truthy(all_documents[1].DataPostupilo)
    /\ Len(processed) = 1
    /\ processed[1].date = FormatDate(parse_date(all_documents[1].Data))
    /\ PayerIsOurs(LastDoc)
    /\ Truthy(LastDoc.DataSpisano)
    /\ ~parse_date(LastDoc.DataSpisano).ok
    /\ parse_date(LastDoc.Data).ok
    /\ skipped_invalid_data = 1

-----------------------------------------------------------------------------
(* The cache of the normalizations of a report *)

\* The group that the loop finalizes in this step, as it is before the step, and
\* its details after the step.
GroupFinalized == pc = "finalize" /\ group_index' = group_index + 1
NextGroup == cp_aggregated_data[group_index + 1]
FinalDetails == cp_aggregated_data'[group_index + 1].details
\* _prepare_final_cp_details on the group alone, with a cache that holds nothing.
Alone(cp_data) == _prepare_final_cp_details(cp_data, << >>).details

\* C26: the cache of the aggregator is transparent.  The final name, legal form
\* and display name of every group are those that _prepare_final_cp_details
\* computes for the group alone with an empty cache, also for a group that
\* shares its tax ID value and its set of raw names with a group before it and
\* differs from it in the frequencies of the names.
C26_CacheTransparent ==
    [][GroupFinalized =>
          /\ FinalDetails.name_normalized = Alone(NextGroup).name_normalized
          /\ FinalDetails.legal_form = Alone(NextGroup).legal_form
          /\ FinalDetails.display_name = Alone(NextGroup).display_name]_vars

-----------------------------------------------------------------------------
(* The account of the file and the outcome of a document *)

\* The accounts a file may declare for a document, and none.
FileAccounts == {None, << >>, ACC_A1, ACC_A2, ACC_B1, ACC_B2}
\* The step emits or counts the document taken as the result r of a run of the
\* loop body says.
OutcomeIs(r) ==
    /\ processed' = IF r.outcome = "processed"
                    THEN Append(processed, r.transaction_data) ELSE processed
    /\ skipped_no_our_org' = skipped_no_our_org + One(r.outcome = "skipped_no_our_org")
    /\ skipped_internal' = skipped_internal + One(r.outcome = "skipped_internal")
    /\ skipped_mismatch' = skipped_mismatch + One(r.outcome = "skipped_mismatch")
    /\ skipped_details_missing' =
           skipped_details_missing + One(r.outcome = "skipped_details_missing")
    /\ skipped_no_cp_name' = skipped_no_cp_name + One(r.outcome = "skipped_no_cp_name")
    /\ skipped_invalid_data' =
           skipped_invalid_data + One(r.outcome = "skipped_invalid_data")

\* C27: the outcome of a document (emitted, or the tally it is counted in, and
\* every field of the transaction emitted) is the outcome of the same document
\* with any other account of the file in its place.
C27_FileAccountIrrelevant ==
    [][DocTaken =>
          \A f \in FileAccounts :
              OutcomeIs(LoopBody([NextDoc EXCEPT !.SchetFajla = f], our_orgs_map))]_vars
\* Two documents that differ in the account of their file alone, one from the
\* file of our account and one from the file of the counterparty's, were emitted
\* as the same transaction.
C27_SameFromEitherFile ==
    /\ pc = "done"
    /\ Len(all_documents) = 2
    /\ all_documents[1].SchetFajla = all_documents[1].PlatelshchikSchet
    /\ all_documents[2].SchetFajla = all_documents[2].PoluchatelSchet
    /\ all_documents[2] = [all_documents[1] EXCEPT !.SchetFajla = all_documents[2].SchetFajla]
    /\ Len(processed) = 2
    /\ processed[1] = processed[2]

-----------------------------------------------------------------------------
(* The sums of the amounts of a report *)

Sides == {"income", "expense"}
\* The side of the sums a transaction counts on.
SideOf(t) == IF t.type = "income" THEN "income" ELSE "expense"
\* The sum of the floats of a list, added from the first to the last.
RECURSIVE SumFloats(_)
SumFloats(fs) ==
    IF fs = << >> THEN DoubleZero
    ELSE FloatAdd(SumFloats(SubSeq(fs, 1, Len(fs) - 1)), fs[Len(fs)])
\* The values of the function f in a list, one for each key.
RECURSIVE ValuesOf(_)
ValuesOf(f) ==
    IF DOMAIN f = {} THEN << >>
    ELSE LET k == CHOOSE k \in DOMAIN f : TRUE
         IN  Append(ValuesOf([x \in DOMAIN f \ {k} |-> f[x]]), f[k])
\* The amounts of the transactions aggregated so far that Ok selects, in the
\* order of the list.
AmountsOf(Ok(_)) ==
    LET sel == SelectSeq(SubSeq(transactions, 1, tx_index), Ok)
    IN  [i \in DOMAIN sel |-> sel[i].amount]
\* The sums of a group on one side: of its transactions, of its years, and of
\* our organizations in one year.
SumOfTransactions(g, side) ==
    SumFloats(AmountsOf(LAMBDA t : t.cp_id = g.id /\ SideOf(t) = side))
SumOfYears(g, side) ==
    SumFloats(ValuesOf([y \in DOMAIN g.years |-> g.years[y].totals[side]]))
SumOfOrgs(y_data, side) ==
    SumFloats(ValuesOf([o \in DOMAIN y_data.by_org |-> y_data.by_org[o][side]]))

\* C28: aggregation conserves amounts.  On either side the total of a group is
\* the sum of the amounts of its transactions of that side and the sum of the
\* totals of its years, and the total of a year is the sum of the values of our
\* organizations in it.
C28_AmountsConserved ==
    \A i \in DOMAIN cp_aggregated_data : \A side \in Sides :
        LET g == cp_aggregated_data[i]
        IN  /\ g.totals[side] = SumOfTransactions(g, side)
            /\ g.totals[side] = SumOfYears(g, side)
            /\ \A y \in DOMAIN g.years :
                   g.years[y].totals[side] = SumOfOrgs(g.years[y], side)
\* Every sum is that of its own transactions in the order of the list: the
\* total of a group of the transactions of the group, the total of a year of
\* those of the year, the value of an organization of those of the organization
\* in the year, each on the side of its type.
SumsInListOrder ==
    \A i \in DOMAIN cp_aggregated_data : \A side \in Sides :
        LET g == cp_aggregated_data[i]
        IN  /\ g.totals[side] = SumOfTransactions(g, side)
            /\ \A y \in DOMAIN g.years :
                   /\ g.years[y].totals[side] =
                          SumFloats(AmountsOf(LAMBDA t : /\ t.cp_id = g.id
                                                         /\ SideOf(t) = side
                                                         /\ t.year = y))
                   /\ \A o \in DOMAIN g.years[y].by_org :
                          g.years[y].by_org[o][side] =
                              SumFloats(AmountsOf(LAMBDA t : /\ t.cp_id = g.id
                                                             /\ SideOf(t) = side
                                                             /\ t.year = y
                                                             /\ t.our_org_normalized = o))

\* The transaction_data a record of DEBUG_TRANSACTIONS_LIST was made of.
TransactionDataOf(record) == [k \in DOMAIN record \ DebugKeys |-> record[k]]
\* The debug lists hold one record for each transaction the running or the last
\* call of process_documents has emitted so far, in the order of emission, and
\* no other record.
DebugOfLastCall ==
    /\ Len(DEBUG_NAMES_LIST) = Len(processed)
    /\ Len(DEBUG_TRANSACTIONS_LIST) = Len(processed)
    /\ \A i \in DOMAIN processed :
           /\ TransactionDataOf(DEBUG_TRANSACTIONS_LIST[i]) = processed[i]
           /\ DEBUG_TRANSACTIONS_LIST[i]["_skipped"] = FALSE
           /\ DEBUG_TRANSACTIONS_LIST[i]["_doc_index"] \in 1..doc_index
           /\ DEBUG_NAMES_LIST[i] =
                  [original |-> processed[i].cp_name_raw,
                   normalized |-> processed[i].cp_name_normalized,
                   form |-> processed[i].cp_legal_form,
                   inn |-> processed[i].cp_inn]
    /\ \A i, j \in DOMAIN processed :
           i < j => DEBUG_TRANSACTIONS_LIST[i]["_doc_index"]
                        < DEBUG_TRANSACTIONS_LIST[j]["_doc_index"]
\* C29: repeated runs never share debug state.  With debug mode on the two
\* debug lists hold exactly one record per transaction emitted by the most
\* recent call of process_documents, in emission order, and nothing of earlier
\* calls; with debug mode off no step modifies either list.
C29_DebugStatePerCall ==
    /\ [](debug_mode => DebugOfLastCall)
    /\ [][~debug_mode => UNCHANGED <<DEBUG_NAMES_LIST, DEBUG_TRANSACTIONS_LIST>>]_vars
\* A second call has returned with debug mode on: the first emitted two
\* transactions, the second one transaction and skipped a document.
C29_SecondCallRecorded ==
    /\ debug_mode
    /\ pc = "done"
    /\ Len(stats_log) = 2
    /\ stats_log[1].processed_count = 2
    /\ stats_log[2].processed_count = 1
    /\ stats_log[2].total_skipped = 1
    /\ Len(DEBUG_TRANSACTIONS_LIST) = 1
    /\ DEBUG_TRANSACTIONS_LIST[1]["_doc_index"] = 1

\* The first of the files pass 1 has gone through that declares the account a.
FirstFileOf(a) ==
    LET hits == {k \in 1..file_index :
                    /\ parsed_files_data[k].header_info # EmptyHeader
                    /\ parsed_files_data[k].header_info.OsnovnojSchetFajla = a}
    IN  parsed_files_data[CHOOSE k \in hits : \A j \in hits : k <= j]
\* The entry of needing_names of the account a.
NeedingOf(a) ==
    needing_names[CHOOSE k \in DOMAIN needing_names : needing_names[k].acc = a]
\* What pass 1 holds for every account it has seen is what the first file that
\* declares the account gives: the identity of its name when that normalizes,
\* and otherwise the default identity, left to pass 2.
FromFirstFile ==
    \A a \in processed_file_accounts :
        LET f == FirstFileOf(a)
            found == Pass1Candidate(f.header_info, f.documents)
        IN  IF /\ Truthy(found.name_raw)
               /\ Usable(OrgFromName(found.name_raw, found.org_inn).normalized)
            THEN /\ a \in DOMAIN detected_orgs
                 /\ detected_orgs[a] = OrgFromName(found.name_raw, found.org_inn)
                 /\ a \notin NeedingAccounts(needing_names)
            ELSE /\ a \in NeedingAccounts(needing_names)
                 /\ NeedingOf(a).data = DefaultOrg(a, found.org_inn)
                 /\ a \in DOMAIN detected_orgs => pc \in {"resolve", "detected"}
\* An identity that is fixed is never changed, and pass 2 gives identities to
\* accounts of needing_names only.
IdentityKept ==
    /\ \A a \in DOMAIN detected_orgs :
           a \in DOMAIN detected_orgs' /\ detected_orgs'[a] = detected_orgs[a]
    /\ pc = "resolve" =>
           (DOMAIN detected_orgs') \ DOMAIN detected_orgs
               \subseteq NeedingAccounts(needing_names)
\* C30: when several files declare the same main account, pass 1 consults only
\* the first of them: the header and the documents of a later file never change
\* an identity fixed from the first file, and pass 2 assigns identities only to
\* the accounts pass 1 left without a normalized name, altering no other.
C30_FirstFileDecides == []FromFirstFile /\ [][IdentityKept]_vars
\* Two files declare the account A1; pass 1 would find another name in the
\* second, and the account has the identity of the first.
C30_SecondFileIgnored ==
    /\ pc = "detected"
    /\ Len(parsed_files_data) = 2
    /\ parsed_files_data[1].header_info.OsnovnojSchetFajla = ACC_A1
    /\ parsed_files_data[2].header_info.OsnovnojSchetFajla = ACC_A1
    /\ ACC_A1 \in DOMAIN detected_orgs
    /\ detected_orgs[ACC_A1].name = OOO_ROMASHKA
    /\ Pass1Candidate(parsed_files_data[2].header_info,
                      parsed_files_data[2].documents).name_raw = OOO_LYUTIK
-----------------------------------------------------------------------------
(* Specifications *)

\* process_documents(all_documents, our_orgs_map) on the inputs of ProcessInputs.
ProcessStart(in, mode) ==
        /\ pc = "process"
        /\ parsed_files_data = << >>
        /\ file_index = 0
        /\ detected_orgs = << >>
        /\ needing_names = << >>
        /\ processed_file_accounts = {}
        /\ names_found_global = << >>
        /\ inns_found_global = << >>
        /\ resolve_index = 0
        /\ all_documents = in.docs
        /\ our_orgs_map = in.orgs
        /\ doc_index = 0
        /\ processed = << >>
        /\ skipped_internal = 0
        /\ skipped_no_our_org = 0
        /\ skipped_mismatch = 0
        /\ skipped_details_missing = 0
        /\ skipped_invalid_data = 0
        /\ skipped_no_cp_name = 0
        /\ locals = NoLocals
        /\ stats_log = << >>
        /\ args = NoCall
        /\ ret = NoCall
        /\ ReportIdle
        /\ DebugIdle(mode)
InitProcess == \E in \in ProcessInputs : ProcessStart(in, DEBUG_MODE)
NextProcess == ProcessDocument \/ ProcessReturn
SpecProcess == InitProcess /\ [][NextProcess]_vars

\* The state in which detect_organizations(files) starts.
DetectStart(files) ==
    /\ pc = "pass1"
    /\ parsed_files_data = files
    /\ file_index = 0
    /\ detected_orgs = << >>
    /\ needing_names = << >>
    /\ processed_file_accounts = {}
    /\ names_found_global = << >>
    /\ inns_found_global = << >>
    /\ resolve_index = 0
    /\ all_documents = << >>
    /\ our_orgs_map = << >>
    /\ doc_index = 0
    /\ processed = << >>
    /\ skipped_internal = 0
    /\ skipped_no_our_org = 0
    /\ skipped_mismatch = 0
    /\ skipped_details_missing = 0
    /\ skipped_invalid_data = 0
    /\ skipped_no_cp_name = 0
    /\ locals = NoLocals
    /\ stats_log = << >>
    /\ args = NoCall
    /\ ret = NoCall
    /\ ReportIdle
    /\ DebugIdle(DEBUG_MODE)

\* detect_organizations(parsed_files_data) on the inputs of DetectInputs.
InitDetect == \E files \in DetectInputs : DetectStart(files)
NextDetect == Pass1File \/ Pass2Scan \/ Pass2Resolve \/ DetectReturn
SpecDetect == InitDetect /\ [][NextDetect]_vars

\* run_analysis from the parsed files on: detect_organizations, then
\* process_documents on every document of the files.
InitPipe == \E files \in PipeInputs : DetectStart(files)
NextPipe ==
    \/ Pass1File
    \/ Pass2Scan
    \/ Pass2Resolve
    \/ DetectReturn
    \/ StartProcessing
    \/ ProcessDocument
    \/ ProcessReturn
SpecPipe == InitPipe /\ [][NextPipe]_vars

\* The state in which a function is called on its own with the arguments a.
CallStart(fn, a) ==
    /\ pc = fn
    /\ parsed_files_data = << >>
    /\ file_index = 0
    /\ detected_orgs = << >>
    /\ needing_names = << >>
    /\ processed_file_accounts = {}
    /\ names_found_global = << >>
    /\ inns_found_global = << >>
    /\ resolve_index = 0
    /\ all_documents = << >>
    /\ our_orgs_map = << >>
    /\ doc_index = 0
    /\ processed = << >>
    /\ skipped_internal = 0
    /\ skipped_no_our_org = 0
    /\ skipped_mismatch = 0
    /\ skipped_details_missing = 0
    /\ skipped_invalid_data = 0
    /\ skipped_no_cp_name = 0
    /\ locals = NoLocals
    /\ stats_log = << >>
    /\ args = a
    /\ ret = NoCall
    /\ ReportIdle
    /\ DebugIdle(DEBUG_MODE)

\* get_best_name on the Counters of Counters.
InitBestName == \E c \in Counters : CallStart("get_best_name", [names_counter |-> c])
NextBestName == BestNameCall
SpecBestName == InitBestName /\ [][NextBestName]_vars

\* detect_final_legal_form and normalize_and_classify on the names of RawNames
\* with the tax IDs of RawInns.
NormalizeArgs(fn, raw_name, inn) ==
    [fn |-> fn, raw_name |-> raw_name, inn |-> inn, round |-> 0, first_form |-> None]
InitNormalize ==
    \E fn \in {"detect_final_legal_form", "normalize_and_classify", "normalize_name_core"} :
        \E raw_name \in RawNames, inn \in RawInns :
            CallStart(fn, NormalizeArgs(fn, raw_name, inn))
NextNormalize ==
    DetectFormCall \/ NormalizeCall \/ RenormalizeCall \/ NoiseStage \/ FormStage
SpecNormalize == InitNormalize /\ [][NextNormalize]_vars

\* generate_counterparty_annual_report from its aggregation loop to the end of
\* the loop that finalizes the groups, on at most MaxTx transactions.
ReportStart(txs) ==
        /\ txs # << >>
        /\ pc = "aggregate"
        /\ parsed_files_data = << >>
        /\ file_index = 0
        /\ detected_orgs = << >>
        /\ needing_names = << >>
        /\ processed_file_accounts = {}
        /\ names_found_global = << >>
        /\ inns_found_global = << >>
        /\ resolve_index = 0
        /\ all_documents = << >>
        /\ our_orgs_map = << >>
        /\ doc_index = 0
        /\ processed = << >>
        /\ skipped_internal = 0
        /\ skipped_no_our_org = 0
        /\ skipped_mismatch = 0
        /\ skipped_details_missing = 0
        /\ skipped_invalid_data = 0
        /\ skipped_no_cp_name = 0
        /\ locals = NoLocals
        /\ stats_log = << >>
        /\ args = NoCall
        /\ ret = NoCall
        /\ transactions = txs
        /\ tx_index = 0
        /\ cp_aggregated_data = << >>
        /\ group_index = 0
        /\ normalization_cache = << >>
        /\ report_data = << >>
        /\ DebugIdle(DEBUG_MODE)
InitReport == \E txs \in SeqsUpTo(ReportTxs, MaxTx) : ReportStart(txs)
NextReport == AggregateTransaction \/ FinalizeGroup
SpecReport == InitReport /\ [][NextReport]_vars

\* The same on at most MaxCacheTx transactions of one company under two
\* spellings and on two accounts, without a tax ID.
InitCache == \E txs \in SeqsUpTo(CacheTxs, MaxCacheTx) : ReportStart(txs)
SpecCache == InitCache /\ [][NextReport]_vars

\* python -m src on the data directories of RunInputs.
InitRun == \E files \in RunInputs : CallStart("__main__", [files |-> files])
NextRun == ImportMain
SpecRun == InitRun /\ [][NextRun]_vars

\* The aggregation loop of generate_counterparty_annual_report on at most
\* MaxSumTx transactions of SumTxs.
InitSums == \E txs \in SeqsUpTo(SumTxs, MaxSumTx) : ReportStart(txs)
NextSums == AggregateTransaction
SpecSums == InitSums /\ [][NextSums]_vars

\* process_documents called MaxCalls times in one process, on the inputs of
\* DebugInputs, with DEBUG_MODE of config.py set or not.
InitDebug == \E in \in DebugInputs, mode \in BOOLEAN : ProcessStart(in, mode)
NextDebug == ProcessCall \/ ProcessDocument \/ ProcessReturn
SpecDebug == InitDebug /\ [][NextDebug]_vars

Init == InitPipe
Next == NextPipe
Spec == Init /\ [][Next]_vars
=============================================================================
